---- MODULE Spec2Model ----
(***************************************************************************)
(* saferm: the trash handlers (src/src/trash) over a POSIX-like file       *)
(* system.                                                                 *)
(*                                                                         *)
(* Text is a sequence of tokens; a token is an indivisible piece of text   *)
(* ("d", ".", "/", "Path=", the newline NL ...).  A file name is a text    *)
(* without "/", a path is a sequence of file names from the root, and the  *)
(* file system is a function from the paths that exist to their entries.   *)
(***************************************************************************)
EXTENDS Integers, Sequences, FiniteSets, TLC

VARIABLES
    fs,        \* the file system: path -> entry
    backend,   \* the TrashHandler chosen for the run (trash/mod.rs create_handler)
    faults,    \* the calls so far in which the environment made a file operation fail
    onlyTrash, \* every call so far was a trash() that returned Ok, or a listing
    procs,     \* the saferm processes inside trash(): where each is, and its locals
    last       \* the last step: the call, its arguments and what it returned

vars == <<fs, backend, faults, onlyTrash, procs, last>>

(***************************************************************************)
(* Bounds of the model.                                                    *)
(***************************************************************************)
MaxPayloads == 2      \* trash() is not called on a store already holding this many payloads
MaxFaults == 1        \* calls of one run in which the environment makes a file operation fail

NL == "\n"
SLASH == "/"
DOT == "."

(***************************************************************************)
(* Text helpers.                                                           *)
(***************************************************************************)
Digits == <<"0", "1", "2", "3", "4", "5", "6", "7", "8", "9">>

RECURSIVE Decimal(_)
\* format!("{}", i) for an unsigned integer
Decimal(i) ==
    IF i < 10 THEN <<Digits[i + 1]>>
    ELSE Decimal(i \div 10) \o <<Digits[(i % 10) + 1]>>

IsDigit(t) == \E i \in 1..10 : Digits[i] = t

DigitValue(t) == (CHOOSE i \in 1..10 : Digits[i] = t) - 1

RECURSIVE ParseDecimal(_, _)
\* the value of a text of digits, acc being the value read so far
ParseDecimal(text, acc) ==
    IF text = <<>> THEN acc
    ELSE ParseDecimal(Tail(text), acc * 10 + DigitValue(Head(text)))

StartsWith(text, prefix) ==
    /\ Len(prefix) <= Len(text)
    /\ SubSeq(text, 1, Len(prefix)) = prefix

\* str::strip_prefix, applied where StartsWith holds
StripPrefix(text, prefix) == SubSeq(text, Len(prefix) + 1, Len(text))

\* str::contains: pat occurs in text as a contiguous piece
Contains(text, pat) ==
    \E i \in 0..Len(text) :
        /\ i + Len(pat) <= Len(text)
        /\ SubSeq(text, i + 1, i + Len(pat)) = pat

RECURSIVE SplitOn(_, _, _)
\* the pieces of text between the occurrences of sep; cur is the piece being read
SplitOn(text, sep, cur) ==
    IF text = <<>> THEN <<cur>>
    ELSE IF Head(text) = sep THEN <<cur>> \o SplitOn(Tail(text), sep, <<>>)
    ELSE SplitOn(Tail(text), sep, Append(cur, Head(text)))

\* str::lines: split at newlines, a final empty line is not a line
Lines(text) ==
    LET pieces == SplitOn(text, NL, <<>>)
    IN  IF pieces[Len(pieces)] = <<>> THEN SubSeq(pieces, 1, Len(pieces) - 1)
        ELSE pieces

(***************************************************************************)
(* std::path::Path on file names and paths.                                *)
(***************************************************************************)
LastDot(name) ==
    IF \E i \in 1..Len(name) : name[i] = DOT
    THEN CHOOSE i \in 1..Len(name) :
            /\ name[i] = DOT
            /\ \A j \in (i + 1)..Len(name) : name[j] # DOT
    ELSE 0

\* Path::extension is Some: there is a dot that is not the leading token
HasExtension(name) == LastDot(name) > 1

Extension(name) == SubSeq(name, LastDot(name) + 1, Len(name))

FileStem(name) ==
    IF HasExtension(name) THEN SubSeq(name, 1, LastDot(name) - 1) ELSE name

\* Path::file_name of a path with at least one component
FileName(path) == path[Len(path)]

\* Path::parent
Parent(path) == SubSeq(path, 1, Len(path) - 1)

\* Path::join of a directory and one file name
Join(dir, name) == Append(dir, name)

RECURSIVE Display(_)
\* Path::display of an absolute path
Display(path) ==
    IF path = <<>> THEN <<>>
    ELSE <<SLASH>> \o Head(path) \o Display(Tail(path))

\* PathBuf::from(text), as the components of the path it denotes
PathFrom(text) ==
    LET pieces == SplitOn(text, SLASH, <<>>)
    IN  SelectSeq(pieces, LAMBDA c : c # <<>>)

IsPrefix(p, q) == Len(p) <= Len(q) /\ SubSeq(q, 1, Len(p)) = p

(***************************************************************************)
(* The file system.                                                        *)
(***************************************************************************)
FileEntry(data) == [k |-> "file", d |-> data, to |-> <<>>]
DirEntry == [k |-> "dir", d |-> <<>>, to |-> <<>>]
LinkEntry(target) == [k |-> "link", d |-> <<>>, to |-> target]

NoPath == [ok |-> FALSE, p |-> <<>>]
AtPath(p) == [ok |-> TRUE, p |-> p]

RECURSIVE Resolve(_, _, _, _, _)
\* Path resolution: walk rest from the resolved directory pre.  A link in the
\* middle is always followed, the last component only when followLast.  The
\* result is the place the path denotes (which may hold no entry), or NoPath
\* when a directory on the way is missing, is not a directory, or the links loop.
Resolve(f, pre, rest, followLast, fuel) ==
    IF rest = <<>> THEN AtPath(pre)
    ELSE LET q == Append(pre, Head(rest))
             t == Tail(rest)
         IN  IF q \notin DOMAIN f
             THEN IF t = <<>> THEN AtPath(q) ELSE NoPath
             ELSE IF f[q].k = "link" /\ (t # <<>> \/ followLast)
             THEN IF fuel = 0 THEN NoPath
                  ELSE Resolve(f, <<>>, f[q].to \o t, followLast, fuel - 1)
             ELSE IF t # <<>> /\ f[q].k # "dir" THEN NoPath
             ELSE Resolve(f, q, t, followLast, fuel)

\* a resolution that follows more links than there are is in a loop (ELOOP)
LinkCount(f) == Cardinality({q \in DOMAIN f : f[q].k = "link"})

\* lstat: the place of the entry itself
Phys(f, path) == Resolve(f, <<>>, path, FALSE, LinkCount(f))
\* stat: the place of what the path finally points to
Follow(f, path) == Resolve(f, <<>>, path, TRUE, LinkCount(f))

IsDirAt(f, p) == p = <<>> \/ (p \in DOMAIN f /\ f[p].k = "dir")

\* Path::exists (follows links)
Exists(f, path) ==
    /\ Follow(f, path).ok
    /\ (Follow(f, path).p = <<>> \/ Follow(f, path).p \in DOMAIN f)

\* Path::is_symlink (symlink_metadata)
IsSymlink(f, path) ==
    /\ Phys(f, path).ok
    /\ Phys(f, path).p \in DOMAIN f
    /\ f[Phys(f, path).p].k = "link"

\* Path::is_dir (follows links)
IsDir(f, path) == Exists(f, path) /\ IsDirAt(f, Follow(f, path).p)

Under(f, p) == {q \in DOMAIN f : IsPrefix(p, q)}
Children(f, p) == {q \in DOMAIN f : Len(q) = Len(p) + 1 /\ IsPrefix(p, q)}

Put(f, p, e) == [q \in DOMAIN f \cup {p} |-> IF q = p THEN e ELSE f[q]]
Del(f, S) == [q \in DOMAIN f \ S |-> f[q]]

\* the entries at and below p, by their path relative to p
Subtree(f, p) ==
    [r \in {SubSeq(q, Len(p) + 1, Len(q)) : q \in Under(f, p)} |-> f[p \o r]]

\* f with the subtree t planted at p (nothing is at or below p in f)
Plant(f, p, t) ==
    [q \in DOMAIN f \cup {p \o r : r \in DOMAIN t} |->
        IF q \in DOMAIN f THEN f[q] ELSE t[SubSeq(q, Len(p) + 1, Len(q))]]

\* The outcome of a file operation: done; refused by the file system for the
\* state it is in (ENOENT, EISDIR, ENOTEMPTY ...); or failed because of the
\* environment (EACCES, EXDEV, EIO, ENOSPC ...), which is what inj records.
Done(f) == [ok |-> TRUE, fs |-> f, inj |-> FALSE]
Refused(f) == [ok |-> FALSE, fs |-> f, inj |-> FALSE]
Fault(f) == [ok |-> FALSE, fs |-> f, inj |-> TRUE]

(***************************************************************************)
(* std::fs primitives.  Each yields the set of its possible outcomes.      *)
(***************************************************************************)
\* rename(2) can succeed: the source entry exists, the destination's directory
\* exists, a directory is not moved below itself, and an occupied destination
\* is replaced only by a file over a non-directory or by a directory over an
\* empty directory
CanRename(f, s, d) ==
    /\ s.ok /\ s.p \in DOMAIN f
    /\ d.ok /\ d.p # <<>>
    /\ (s.p = d.p \/ ~IsPrefix(s.p, d.p))
    /\ d.p \in DOMAIN f /\ d.p # s.p =>
          IF f[s.p].k = "dir"
          THEN f[d.p].k = "dir" /\ Children(f, d.p) = {}
          ELSE f[d.p].k # "dir"

\* a move of the entry at s alone, without what is below it: not rename(2)
RenamedAlone(f, s, d) ==
    IF s = d THEN f
    ELSE Put(Del(f, Under(f, s) \cup Under(f, d)), d, f[s])

Renamed(f, s, d) ==
    IF s = d THEN f
    ELSE Plant(Del(f, Under(f, s) \cup Under(f, d)), d, Subtree(f, s))

\* a move by copy and delete that can fail with the copy made: not fs::rename
RenameCopying(f, src, dst) ==
    IF CanRename(f, Phys(f, src), Phys(f, dst))
    THEN {Done(Renamed(f, Phys(f, src).p, Phys(f, dst).p)),
          Fault(Plant(Del(f, Under(f, Phys(f, dst).p)), Phys(f, dst).p,
                      Subtree(f, Phys(f, src).p)))}
    ELSE {Refused(f)}

\* fs::rename: atomic, and neither end follows a final symbolic link
Rename(f, src, dst) ==
    IF CanRename(f, Phys(f, src), Phys(f, dst))
    THEN {Done(Renamed(f, Phys(f, src).p, Phys(f, dst).p)), Fault(f)}
    ELSE {Refused(f)}

\* an unlink of what the path points to, a final symbolic link followed: not
\* what remove_file does to a link
RemoveFileFollowing(f, path) ==
    IF /\ Follow(f, path).ok
       /\ Follow(f, path).p \in DOMAIN f
       /\ f[Follow(f, path).p].k # "dir"
    THEN {[ok |-> TRUE, fs |-> Del(f, {Follow(f, path).p}), inj |-> FALSE],
          [ok |-> FALSE, fs |-> f, inj |-> TRUE]}
    ELSE {[ok |-> FALSE, fs |-> f, inj |-> FALSE]}

\* fs::remove_file: unlinks a file or a symbolic link, never a directory
RemoveFile(f, path) ==
    IF /\ Phys(f, path).ok
       /\ Phys(f, path).p \in DOMAIN f
       /\ f[Phys(f, path).p].k # "dir"
    THEN {Done(Del(f, {Phys(f, path).p})), Fault(f)}
    ELSE {Refused(f)}

\* the sets of entries a recursive removal of p can have removed when it stops
\* early: an entry goes only after everything below it
PartlyRemoved(f, p) ==
    {S \in SUBSET (Under(f, p) \ {p}) :
        \A q \in S : \A r \in Under(f, q) : r \in S}

\* fs::remove_dir_all: removes the tree (of a symbolic link, the link), or
\* fails having removed part of it
RemoveDirAll(f, path) ==
    IF ~(Phys(f, path).ok /\ Phys(f, path).p \in DOMAIN f) THEN {Refused(f)}
    ELSE {Done(Del(f, Under(f, Phys(f, path).p)))}
         \cup {Fault(Del(f, S)) : S \in PartlyRemoved(f, Phys(f, path).p)}

RECURSIVE CreateDirAll(_, _, _)
\* fs::create_dir_all(pre joined with rest): creates the missing directories
\* from the top
CreateDirAll(f, pre, rest) ==
    IF rest = <<>> THEN {Done(f)}
    ELSE LET q == Append(pre, Head(rest))
         IN  IF q \in DOMAIN f
             THEN IF f[q].k = "dir" THEN CreateDirAll(f, q, Tail(rest))
                  ELSE {Refused(f)}
             ELSE {Fault(f)} \cup CreateDirAll(Put(f, q, DirEntry), q, Tail(rest))

\* fs::write: creates or truncates the file the path points to, then writes;
\* a failure leaves the file system as it was, or the file empty
WriteFile(f, path, data) ==
    IF /\ Follow(f, path).ok
       /\ Follow(f, path).p # <<>>
       /\ Follow(f, path).p \in DOMAIN f => f[Follow(f, path).p].k = "file"
    THEN {Done(Put(f, Follow(f, path).p, FileEntry(data))),
          Fault(f),
          Fault(Put(f, Follow(f, path).p, FileEntry(<<>>)))}
    ELSE {Refused(f)}

\* the file names in a directory (fs::read_dir, entry.file_name())
DirNames(f, dir) == {FileName(q) : q \in Children(f, dir)}

(***************************************************************************)
(* ManagedTrash (src/src/trash/managed.rs).                                *)
(***************************************************************************)
base_dir == << <<"T">> >>
files_dir == Join(base_dir, <<"files">>)
info_dir == Join(base_dir, <<"info">>)

\* the token of bytes that are not valid UTF-8, and what to_string_lossy
\* makes of them
BAD == "\\xFF"
REPLACEMENT == "\\uFFFD"

\* OsStr::to_str is Some
IsUtf8(text) == \A i \in 1..Len(text) : text[i] # BAD

\* to_string_lossy / Path::display
Lossy(text) == [i \in 1..Len(text) |-> IF text[i] = BAD THEN REPLACEMENT ELSE text[i]]

InfoName(trash_name) == trash_name \o <<DOT, "trashinfo">>

\* what a call returned (res), the file system it left, and whether the
\* environment made one of its file operations fail
Outcome(res, f, inj) == [res |-> res, fs |-> f, inj |-> inj]

\* ensure_dirs
ensure_dirs(f) ==
    UNION {IF ~a.ok THEN {a} ELSE CreateDirAll(a.fs, <<>>, info_dir) :
           a \in CreateDirAll(f, <<>>, files_dir)}

\* the i-th candidate of unique_name
Candidate(original_name, i) ==
    IF HasExtension(original_name)
    THEN FileStem(original_name) \o <<DOT>> \o Decimal(i) \o <<DOT>>
            \o Extension(original_name)
    ELSE FileStem(original_name) \o <<DOT>> \o Decimal(i)

\* the original name whether it is free or not: not what unique_name returns
original_name_unprobed(f, original_name) == original_name

\* the candidate numbered by the payloads there are, probed or not: not what
\* unique_name returns
unique_name_counting(f, original_name) ==
    IF ~Exists(f, Join(files_dir, original_name)) THEN original_name
    ELSE Candidate(original_name, Cardinality(Children(f, files_dir)))

\* unique_name. A directory of n entries leaves one of n + 1 candidates free.
unique_name(f, original_name) ==
    IF ~Exists(f, Join(files_dir, original_name)) THEN original_name
    ELSE LET n == Cardinality(Children(f, files_dir))
             free(i) == ~Exists(f, Join(files_dir, Candidate(original_name, i)))
         IN  Candidate(original_name,
                 CHOOSE i \in 1..(n + 1) : free(i) /\ \A j \in 1..(i - 1) : ~free(j))

\* the DeletionDate text of a time (Local::now().format)
DateText(now) == Decimal(now)

TrashinfoText(original_path, now) ==
    <<"[Trash Info]", NL, "Path=">> \o Lossy(Display(original_path))
        \o <<NL, "DeletionDate=">> \o DateText(now) \o <<NL>>

\* a write of the record that removes the payload again when the write
\* fails: not what write_trashinfo or its caller does
write_trashinfo_or_discard(f, trash_name, original_path, now) ==
    {IF w.ok THEN w
     ELSE [w EXCEPT !.fs = Del(w.fs, Under(w.fs, Join(files_dir, trash_name)))] :
        w \in WriteFile(f, Join(info_dir, InfoName(trash_name)),
                        TrashinfoText(original_path, now))}

\* write_trashinfo
write_trashinfo(f, trash_name, original_path, now) ==
    WriteFile(f, Join(info_dir, InfoName(trash_name)),
              TrashinfoText(original_path, now))

\* the name trash() stores under: file_name().and_then(to_str).unwrap_or("unknown")
OriginalName(path) ==
    IF IsUtf8(FileName(path)) THEN FileName(path) ELSE <<"unknown">>

\* trash() from the rename on: the rename into files/, then the info record
TrashMove(f, path, canonical, trash_name, now) ==
    UNION {IF ~r.ok THEN {Outcome("MoveFailed", r.fs, r.inj)}
           ELSE {Outcome(IF w.ok THEN "Ok" ELSE "InfoFailed", w.fs, w.inj) :
                    w \in write_trashinfo(r.fs, trash_name, canonical, now)} :
           r \in Rename(f, canonical, Join(files_dir, trash_name))}

\* ManagedTrash::trash
ManagedTrash_trash(f, path, now) ==
    IF IsSymlink(f, path)
    THEN {Outcome(IF r.ok THEN "Ok" ELSE "IoError", r.fs, r.inj) :
             r \in RemoveFile(f, path)}
    ELSE UNION {IF ~e.ok THEN {Outcome("IoError", e.fs, e.inj)}
                ELSE IF ~Exists(e.fs, path) THEN {Outcome("NotFound", e.fs, FALSE)}
                ELSE {Outcome("IoError", e.fs, TRUE)}
                     \cup TrashMove(e.fs, path, Follow(e.fs, path).p,
                                    unique_name(e.fs, OriginalName(path)), now) :
                e \in ensure_dirs(f)}

(***************************************************************************)
(* Reading the records back.                                               *)
(***************************************************************************)
None == [some |-> FALSE, v |-> <<>>]
Some(v) == [some |-> TRUE, v |-> v]

\* NaiveDateTime::parse_from_str accepts the text (DateText's format)
IsDateText(text) == text # <<>> /\ \A i \in 1..Len(text) : IsDigit(text[i])

RECURSIVE ParseInfoLines(_, _, _)
\* the loop of parse_trashinfo over the lines: a later Path or DeletionDate
\* line replaces an earlier one, a date that does not parse leaves date as it is
ParseInfoLines(lines, path, date) ==
    IF lines = <<>> THEN [path |-> path, date |-> date]
    ELSE LET line == Head(lines)
         IN  IF StartsWith(line, <<"Path=">>)
             THEN ParseInfoLines(Tail(lines), Some(StripPrefix(line, <<"Path=">>)), date)
             ELSE IF /\ StartsWith(line, <<"DeletionDate=">>)
                     /\ IsDateText(StripPrefix(line, <<"DeletionDate=">>))
             THEN ParseInfoLines(Tail(lines), path,
                     Some(ParseDecimal(StripPrefix(line, <<"DeletionDate=">>), 0)))
             ELSE ParseInfoLines(Tail(lines), path, date)

\* parse_trashinfo: Err when no Path line was seen
parse_trashinfo(content) ==
    LET r == ParseInfoLines(Lines(content), None, None)
    IN  [ok |-> r.path.some, original_path |-> r.path.v, deleted_at |-> r.date]

\* the last file name of a path text (Path::file_name), None for the root
TextFileName(text) ==
    IF PathFrom(text) = <<>> THEN None ELSE Some(FileName(PathFrom(text)))

NoFilter == None

\* the info files list_restorable goes on to read: the extension is
\* trashinfo, the stem is text, and the payload files/<stem> exists
InfoCandidates(f) ==
    {m \in DirNames(f, info_dir) :
        /\ HasExtension(m) /\ Extension(m) = <<"trashinfo">>
        /\ IsUtf8(FileStem(m))
        /\ Exists(f, Join(files_dir, FileStem(m)))}

\* fs::read_to_string succeeds: a file holding valid UTF-8
Readable(f, path) == f[path].k = "file" /\ IsUtf8(f[path].d)

\* the RestorableItem built from the info file named n
ItemOf(f, n) ==
    LET info == parse_trashinfo(f[Join(info_dir, n)].d)
    IN  [id |-> FileStem(n),
         original_path |-> info.original_path,
         display_name |-> IF TextFileName(info.original_path).some
                          THEN TextFileName(info.original_path).v
                          ELSE FileStem(n),
         deleted_at |-> info.deleted_at]

\* a filter that asks for the pattern in the stored name and in the original
\* path: not the filter of list_restorable
FilterKeepsBoth(filter, trash_name, original_path) ==
    filter.some =>
        /\ Contains(trash_name, filter.v)
        /\ Contains(original_path, filter.v)

\* the filter of list_restorable: the pattern occurs in the stored name or in
\* the original path
FilterKeeps(filter, trash_name, original_path) ==
    filter.some =>
        \/ Contains(trash_name, filter.v)
        \/ Contains(original_path, filter.v)

\* the items list_restorable pushes when every read succeeds
ManagedItems(f, filter) ==
    {ItemOf(f, n) :
        n \in {m \in InfoCandidates(f) :
                 /\ parse_trashinfo(f[Join(info_dir, m)].d).ok
                 /\ FilterKeeps(filter, FileStem(m),
                        parse_trashinfo(f[Join(info_dir, m)].d).original_path)}}

Listed(items, f) == [ok |-> TRUE, items |-> items, fs |-> f, inj |-> FALSE]
ListFailed(f) == [ok |-> FALSE, items |-> {}, fs |-> f, inj |-> TRUE]

\* the listing returns the error of read_to_string on a record that is not
\* text
Unread(f) == [ok |-> FALSE, items |-> {}, fs |-> f, inj |-> FALSE]

\* ManagedTrash::list_restorable: Ok(items), or the error of read_dir or of
\* read_to_string
ManagedTrash_list_restorable(f, filter) ==
    IF ~Exists(f, info_dir) THEN {Listed({}, f)}
    ELSE {ListFailed(f)} \cup
         (IF \A m \in InfoCandidates(f) : Readable(f, Join(info_dir, m))
          THEN {Listed(ManagedItems(f, filter), f)}
          ELSE {Unread(f)})

\* a restore_to that leaves the info record where it is: not what
\* ManagedTrash::restore_to does after the rename
restore_to_keeping_info(f, item_id, destination) ==
    IF ~Exists(f, Join(files_dir, item_id)) THEN {Outcome("NotFound", f, FALSE)}
    ELSE {Outcome(IF r.ok THEN "Ok" ELSE "MoveFailed", r.fs, r.inj) :
             r \in Rename(f, Join(files_dir, item_id), destination)}

\* a restore_to that removes the info record before the rename: not the order
\* of ManagedTrash::restore_to
restore_to_info_first(f, item_id, destination) ==
    IF ~Exists(f, Join(files_dir, item_id)) THEN {Outcome("NotFound", f, FALSE)}
    ELSE UNION {{Outcome(IF r.ok THEN "Ok" ELSE "MoveFailed", r.fs, r.inj \/ x.inj) :
                    r \in Rename(x.fs, Join(files_dir, item_id), destination)} :
                x \in RemoveFile(f, Join(info_dir, InfoName(item_id)))}

\* ManagedTrash::restore_to: the rename, then the info record removed, its
\* result ignored
ManagedTrash_restore_to(f, item_id, destination) ==
    IF ~Exists(f, Join(files_dir, item_id)) THEN {Outcome("NotFound", f, FALSE)}
    ELSE UNION {IF ~r.ok THEN {Outcome("MoveFailed", r.fs, r.inj)}
                ELSE {Outcome("Ok", x.fs, x.inj) :
                        x \in RemoveFile(r.fs, Join(info_dir, InfoName(item_id)))} :
                r \in Rename(f, Join(files_dir, item_id), destination)}

\* one step of the payload loop of cleanup
RemoveEntry(f, path) ==
    IF IsDir(f, path) THEN RemoveDirAll(f, path) ELSE RemoveFile(f, path)

\* a removal loop of cleanup over the entries of dir, in the order read_dir
\* gives them: all of them removed, or the loop left at the first failure
RemoveAllIn(f, dir, payloads) ==
    LET all == Children(f, dir)
        gone(S) == UNION {Under(f, q) : q \in S}
    IN  {Done(Del(f, gone(all)))}
        \cup UNION {{[ok |-> FALSE, fs |-> Del(r.fs, gone(c.before)), inj |-> r.inj] :
                        r \in {x \in (IF payloads THEN RemoveEntry(f, c.at)
                                      ELSE RemoveFile(f, c.at)) : ~x.ok}} :
                    c \in {x \in [before : SUBSET all, at : all] :
                             x.at \notin x.before}}

Cleaned(res, f, inj, asked) == [res |-> res, fs |-> f, inj |-> inj, asked |-> asked]

\* a removal of the payloads that leaves the info files: not what cleanup
\* does once confirmed
CleanupRemovePayloads(f) ==
    {Cleaned(IF p.ok THEN "Ok" ELSE "IoError", p.fs, p.inj, 1) :
        p \in RemoveAllIn(f, files_dir, TRUE)}

\* a removal that goes on to report success whatever failed: not what cleanup
\* does once confirmed
CleanupRemoveQuiet(f) ==
    {Cleaned("Ok", f, TRUE, 1)} \cup
    UNION {IF ~p.ok \/ ~Exists(p.fs, info_dir) THEN {Cleaned("Ok", p.fs, p.inj, 1)}
           ELSE {Cleaned("Ok", i.fs, i.inj, 1) :
                    i \in RemoveAllIn(p.fs, info_dir, FALSE)} :
           p \in RemoveAllIn(f, files_dir, TRUE)}

\* cleanup once the prompter has confirmed: the payloads, then the info files
CleanupRemove(f) ==
    {Cleaned("IoError", f, TRUE, 1)} \cup
    UNION {IF ~p.ok THEN {Cleaned("IoError", p.fs, p.inj, 1)}
           ELSE IF ~Exists(p.fs, info_dir) THEN {Cleaned("Ok", p.fs, FALSE, 1)}
           ELSE {Cleaned("IoError", p.fs, TRUE, 1)} \cup
                {Cleaned(IF i.ok THEN "Ok" ELSE "IoError", i.fs, i.inj, 1) :
                    i \in RemoveAllIn(p.fs, info_dir, FALSE)} :
           p \in RemoveAllIn(f, files_dir, TRUE)}

\* a cleanup that removes the entries whatever the prompter answers: not
\* ManagedTrash::cleanup
cleanup_unasked(f, answer) ==
    IF ~Exists(f, files_dir) \/ Children(f, files_dir) = {}
    THEN {Cleaned("Nothing", f, FALSE, 0)}
    ELSE {[c EXCEPT !.res = IF answer = "yes" THEN c.res ELSE "Cancelled"] :
             c \in CleanupRemove(f)}

\* a cleanup that asks for confirmation although files/ is empty: not
\* ManagedTrash::cleanup
cleanup_asking_first(f, answer) ==
    IF ~Exists(f, files_dir) THEN {Cleaned("Nothing", f, FALSE, 0)}
    ELSE IF answer = "err" THEN {Cleaned("PromptError", f, FALSE, 1)}
    ELSE IF answer = "no" THEN {Cleaned("Cancelled", f, FALSE, 1)}
    ELSE CleanupRemove(f)

\* ManagedTrash::cleanup; answer is what prompter.confirm returns when asked
ManagedTrash_cleanup(f, answer) ==
    IF ~Exists(f, files_dir) THEN {Cleaned("Nothing", f, FALSE, 0)}
    ELSE {Cleaned("IoError", f, TRUE, 0)} \cup
         (IF Children(f, files_dir) = {} THEN {Cleaned("Nothing", f, FALSE, 0)}
          ELSE IF answer = "err" THEN {Cleaned("PromptError", f, FALSE, 1)}
          ELSE IF answer = "no" THEN {Cleaned("Cancelled", f, FALSE, 1)}
          ELSE CleanupRemove(f))

(***************************************************************************)
(* OsTrash on macOS (src/src/trash/os_trash.rs): the platform trash, and   *)
(* the records saferm keeps beside it.                                     *)
(***************************************************************************)
OsTrash_info_dir == << <<"D">>, <<"saferm">>, <<"os-trash-info">> >>
OsTrash_trash_dir == << <<"H">>, <<DOT, "Trash">> >>

\* snapshot_trash: the names in the trash, or none when read_dir fails
snapshot_trash(f) ==
    {[names |-> DirNames(f, OsTrash_trash_dir), inj |-> FALSE]}
    \cup (IF DirNames(f, OsTrash_trash_dir) = {} THEN {}
          ELSE {[names |-> {}, inj |-> TRUE]})

\* the names the platform gives an entry called name when it moves it into
\* the trash: the name itself when it is free there, else a free variant
PlatformNames(f, name) ==
    IF name \notin DirNames(f, OsTrash_trash_dir) THEN {name}
    ELSE {n \in {name \o <<" ", "2">>, name \o <<" ", "3">>} :
             n \notin DirNames(f, OsTrash_trash_dir)}

\* trash::delete: the entry is moved into the user's trash under a name the
\* platform chooses, or to the trash of another volume, or the call fails
trash_delete(f, path) ==
    IF ~Exists(f, path) \/ Follow(f, path).p = <<>> THEN {Refused(f)}
    ELSE LET p == Follow(f, path).p
         IN  {Done(Renamed(f, p, Join(OsTrash_trash_dir, n))) :
                 n \in PlatformNames(f, FileName(p))}
             \cup {[ok |-> TRUE, fs |-> Del(f, Under(f, p)), inj |-> TRUE], Fault(f)}

\* uuid_v4: made of the time and the process id
uuid_v4(now) == <<"u">> \o Decimal(now)

RestoreMetaText(trash_name, original_path, now) ==
    <<"[Trash Info]", NL, "Path=">> \o Lossy(Display(original_path))
        \o <<NL, "TrashPath=">> \o Lossy(Display(Join(OsTrash_trash_dir, trash_name)))
        \o <<NL, "DeletionDate=">> \o DateText(now) \o <<NL>>

\* write_restore_meta
write_restore_meta(f, trash_name, original_path, now) ==
    UNION {IF ~e.ok THEN {e}
           ELSE {[w EXCEPT !.inj = w.inj \/ e.inj] :
                    w \in WriteFile(e.fs, Join(OsTrash_info_dir, InfoName(uuid_v4(now))),
                                    RestoreMetaText(trash_name, original_path, now))} :
           e \in CreateDirAll(f, <<>>, OsTrash_info_dir)}

\* the end of OsTrash::trash, were the record written whenever some entry is
\* new
TrackAnyEntries(f, new_entries, original_path, now) ==
    IF new_entries = {} THEN {[fs |-> f, inj |-> FALSE]}
    ELSE {[fs |-> w.fs, inj |-> w.inj] :
             w \in write_restore_meta(f, CHOOSE n \in new_entries : TRUE,
                                      original_path, now)}

\* the end of OsTrash::trash: the record is written when exactly one entry is
\* new, and a failure to write it is dropped
TrackNewEntries(f, new_entries, original_path, now) ==
    IF Cardinality(new_entries) # 1 THEN {[fs |-> f, inj |-> FALSE]}
    ELSE {[fs |-> w.fs, inj |-> w.inj] :
             w \in write_restore_meta(f, CHOOSE n \in new_entries : TRUE,
                                      original_path, now)}

\* OsTrash::trash from the first snapshot on
TrashTracked(f, path, original_path, now) ==
    UNION {UNION {IF ~d.ok THEN {Outcome("BackendFailed", d.fs, d.inj \/ before.inj)}
                  ELSE UNION {
                         {Outcome("Ok", w.fs,
                                  w.inj \/ d.inj \/ before.inj \/ after.inj) :
                             w \in TrackNewEntries(d.fs, after.names \ before.names,
                                                   original_path, now)} :
                         after \in snapshot_trash(d.fs)} :
                  d \in trash_delete(f, path)} :
           before \in snapshot_trash(f)}

\* OsTrash::trash (macOS)
OsTrash_trash(f, path, now) ==
    IF IsSymlink(f, path)
    THEN {Outcome(IF r.ok THEN "Ok" ELSE "IoError", r.fs, r.inj) :
             r \in RemoveFile(f, path)}
    ELSE TrashTracked(f, path,
                      IF Exists(f, path) THEN Follow(f, path).p ELSE path, now)

RECURSIVE ParseMetaLines(_, _, _, _)
\* the loop of parse_restore_meta over the lines
ParseMetaLines(lines, path, trash_path, date) ==
    IF lines = <<>> THEN [path |-> path, trash_path |-> trash_path, date |-> date]
    ELSE LET line == Head(lines)
         IN  IF StartsWith(line, <<"Path=">>)
             THEN ParseMetaLines(Tail(lines), Some(StripPrefix(line, <<"Path=">>)),
                                 trash_path, date)
             ELSE IF StartsWith(line, <<"TrashPath=">>)
             THEN ParseMetaLines(Tail(lines), path,
                                 Some(StripPrefix(line, <<"TrashPath=">>)), date)
             ELSE IF /\ StartsWith(line, <<"DeletionDate=">>)
                     /\ IsDateText(StripPrefix(line, <<"DeletionDate=">>))
             THEN ParseMetaLines(Tail(lines), path, trash_path,
                     Some(ParseDecimal(StripPrefix(line, <<"DeletionDate=">>), 0)))
             ELSE ParseMetaLines(Tail(lines), path, trash_path, date)

\* parse_restore_meta: None unless a Path and a TrashPath line were seen
parse_restore_meta(content) ==
    LET r == ParseMetaLines(Lines(content), None, None, None)
    IN  [ok |-> r.path.some /\ r.trash_path.some,
         original_path |-> r.path.v, trash_path |-> r.trash_path.v,
         deleted_at |-> r.date]

\* the record files list_restorable reads and parses
MetaRecords(f) ==
    {m \in DirNames(f, OsTrash_info_dir) :
        /\ HasExtension(m) /\ Extension(m) = <<"trashinfo">>
        /\ Readable(f, Join(OsTrash_info_dir, m))
        /\ parse_restore_meta(f[Join(OsTrash_info_dir, m)].d).ok}

MetaOf(f, m) == parse_restore_meta(f[Join(OsTrash_info_dir, m)].d)

\* no record taken for stale, whether or not its trash path exists: not what
\* OsTrash::list_restorable checks
NoStaleRecords(f) == {}

\* the records whose trash path no longer exists
StaleRecords(f) ==
    {m \in MetaRecords(f) : ~Exists(f, PathFrom(MetaOf(f, m).trash_path))}

\* the filter of OsTrash::list_restorable: the pattern occurs in the file name
\* of the original path or in the original path
OsFilterKeeps(filter, original_path) ==
    filter.some =>
        \/ Contains(IF TextFileName(original_path).some
                    THEN Lossy(TextFileName(original_path).v) ELSE <<>>, filter.v)
        \/ Contains(Lossy(original_path), filter.v)

\* the items OsTrash::list_restorable pushes
OsItems(f, filter) ==
    {[id |-> FileStem(m),
      original_path |-> MetaOf(f, m).original_path,
      display_name |-> IF TextFileName(MetaOf(f, m).original_path).some
                       THEN TextFileName(MetaOf(f, m).original_path).v
                       ELSE <<"unknown">>,
      deleted_at |-> MetaOf(f, m).deleted_at] :
        m \in {x \in MetaRecords(f) \ StaleRecords(f) :
                 OsFilterKeeps(filter, MetaOf(f, x).original_path)}}

\* OsTrash::list_restorable (macOS): the items, the stale records removed as
\* far as remove_file succeeds
OsTrash_list_restorable(f, filter) ==
    IF ~Exists(f, OsTrash_info_dir) THEN {Listed({}, f)}
    ELSE {ListFailed(f)}
         \cup {[ok |-> TRUE, items |-> OsItems(f, filter),
                fs |-> Del(f, {Join(OsTrash_info_dir, m) : m \in S}),
                inj |-> S # StaleRecords(f)] :
                  S \in SUBSET StaleRecords(f)}

\* OsTrash::restore_to (macOS)
OsTrash_restore_to(f, item_id, destination) ==
    LET info_path == Join(OsTrash_info_dir, InfoName(Lossy(item_id)))
    IN  IF ~(Exists(f, info_path) /\ Readable(f, Follow(f, info_path).p))
        THEN {Outcome("NotFound", f, FALSE)}
        ELSE LET meta == parse_restore_meta(f[Follow(f, info_path).p].d)
             IN  IF ~meta.ok \/ ~Exists(f, PathFrom(meta.trash_path))
                 THEN {Outcome("NotFound", f, FALSE)}
                 ELSE {Outcome("NotFound", f, TRUE)} \cup
                      UNION {IF ~r.ok THEN {Outcome("MoveFailed", r.fs, r.inj)}
                             ELSE {Outcome("Ok", x.fs, x.inj) :
                                     x \in RemoveFile(r.fs, info_path)} :
                             r \in Rename(f, PathFrom(meta.trash_path), destination)}

(***************************************************************************)
(* OsTrash on the other unix platforms (src/src/trash/os_trash.rs): the    *)
(* trash crate lists and restores, and restores to the original path only. *)
(* The crate keeps the trash as the freedesktop layout files/ and info/.   *)
(***************************************************************************)
NativeTrash == << <<"H">>, <<"Trash">> >>
NativeFiles == Join(NativeTrash, <<"files">>)
NativeInfo == Join(NativeTrash, <<"info">>)

\* the info records of the native trash that parse
NativeRecords(f) ==
    {m \in DirNames(f, NativeInfo) :
        /\ HasExtension(m) /\ Extension(m) = <<"trashinfo">>
        /\ Readable(f, Join(NativeInfo, m))
        /\ parse_trashinfo(f[Join(NativeInfo, m)].d).ok}

\* the TrashItems of trash::os_limited::list
NativeItems(f) ==
    {[id |-> FileStem(m),
      name |-> IF TextFileName(parse_trashinfo(f[Join(NativeInfo, m)].d).original_path).some
               THEN TextFileName(parse_trashinfo(f[Join(NativeInfo, m)].d).original_path).v
               ELSE <<>>,
      original_path |-> parse_trashinfo(f[Join(NativeInfo, m)].d).original_path,
      time_deleted |-> parse_trashinfo(f[Join(NativeInfo, m)].d).deleted_at] :
        m \in NativeRecords(f)}

\* trash::os_limited::list: the items, or an error
os_limited_list(f) ==
    IF ~Exists(f, NativeInfo) THEN {Listed({}, f)}
    ELSE {Listed(NativeItems(f), f), ListFailed(f)}

\* the name the crate stores an entry called name under: a name free in files/
NativeName(f, name) ==
    IF ~Exists(f, Join(NativeFiles, name)) THEN name
    ELSE LET n == Cardinality(Children(f, NativeFiles))
             free(i) == ~Exists(f, Join(NativeFiles, Candidate(name, i)))
         IN  Candidate(name,
                 CHOOSE i \in 1..(n + 1) : free(i) /\ \A j \in 1..(i - 1) : ~free(j))

\* trash::delete: the entry is moved into files/ and its record written, or
\* the call fails and nothing has changed
native_delete(f, path, now) ==
    IF ~Exists(f, path) \/ Follow(f, path).p = <<>> \/ ~Exists(f, NativeFiles)
       \/ ~Exists(f, NativeInfo)
    THEN {Refused(f)}
    ELSE LET p == Follow(f, path).p
             n == NativeName(f, FileName(p))
         IN  {Done(Put(Renamed(f, p, Join(NativeFiles, n)),
                       Join(NativeInfo, InfoName(n)),
                       FileEntry(TrashinfoText(p, now)))),
              Fault(f)}

\* OsTrash::trash (not macOS)
OsTrash_trash_unix(f, path, now) ==
    IF IsSymlink(f, path)
    THEN {Outcome(IF r.ok THEN "Ok" ELSE "IoError", r.fs, r.inj) :
             r \in RemoveFile(f, path)}
    ELSE {Outcome(IF d.ok THEN "Ok" ELSE "BackendFailed", d.fs, d.inj) :
             d \in native_delete(f, path, now)}

\* the filter of OsTrash::list_restorable (not macOS): the pattern occurs in
\* the item's name or in its original path
UnixFilterKeeps(filter, item) ==
    filter.some =>
        \/ Contains(Lossy(item.name), filter.v)
        \/ Contains(Lossy(item.original_path), filter.v)

\* OsTrash::list_restorable (not macOS)
OsTrash_list_restorable_unix(f, filter) ==
    {IF ~l.ok THEN l
     ELSE Listed({[id |-> i.id, original_path |-> i.original_path,
                   display_name |-> i.name, deleted_at |-> i.time_deleted] :
                     i \in {x \in l.items : UnixFilterKeeps(filter, x)}}, l.fs) :
        l \in os_limited_list(f)}

\* what trash::os_limited::restore_all returned, the file system it left, the
\* injected failures, and whether the error is RestoreCollision
Restored(ok, f, n, collision) == [ok |-> ok, fs |-> f, n |-> n, collision |-> collision]

\* trash::os_limited::restore_all of one item: RestoreCollision when the
\* original path is taken; else the payload is moved to the original path and
\* the record removed.  A failure leaves everything as it was, or the payload
\* moved and the record in place.
restore_all(f, item) ==
    LET original_path == PathFrom(item.original_path)
        src == Join(NativeFiles, item.id)
    IN  IF Phys(f, original_path).ok /\ Phys(f, original_path).p \in DOMAIN f
        THEN {Restored(FALSE, f, 0, TRUE)}
        ELSE UNION {IF ~r.ok THEN {Restored(FALSE, r.fs, IF r.inj THEN 1 ELSE 0, FALSE)}
                    ELSE {Restored(x.ok, x.fs, IF x.inj THEN 1 ELSE 0, FALSE) :
                            x \in RemoveFile(r.fs, Join(NativeInfo, InfoName(item.id)))} :
                    r \in Rename(f, src, original_path)}

\* the process id in the eviction name
Pids == {4}

\* the name of the n-th eviction candidate for base_name
EvictName(pid, counter, base_name) ==
    IF counter = 0
    THEN <<DOT, "saferm-evict-">> \o Decimal(pid) \o <<"-">> \o base_name
    ELSE <<DOT, "saferm-evict-">> \o Decimal(pid) \o <<"-">> \o Decimal(counter)
            \o <<"-">> \o base_name

\* restore_to: tmp, the first eviction candidate beside original_path that
\* does not exist
EvictPath(f, original_path, pid) ==
    LET parent == Parent(original_path)
        base_name == Lossy(FileName(original_path))
        n == Cardinality(Children(f, parent))
        free(i) == ~Exists(f, Join(parent, EvictName(pid, i, base_name)))
    IN  Join(parent, EvictName(pid,
            CHOOSE i \in 0..n : free(i) /\ \A j \in 0..(i - 1) : ~free(j),
            base_name))

\* what restore_to returned, the file system it left, the number of file
\* operations the environment made fail, and where the occupant of the
\* original path was evicted to (<<>> when none was)
Unwound(res, f, n, tmp) == [res |-> res, fs |-> f, n |-> n, inj |-> n > 0, tmp |-> tmp]

\* fs::rename(tmp, original_path) with its result only reported: the file
\* systems it can leave, each with the count of injected failures
PutBack(f, tmp, original_path) ==
    IF tmp = <<>> THEN {[fs |-> f, n |-> 0]}
    ELSE {[fs |-> r.fs, n |-> IF r.inj THEN 1 ELSE 0] :
             r \in Rename(f, tmp, original_path)}

\* OsTrash::restore_to (not macOS) from the native restore on; tmp is where
\* the occupant was evicted to, n the failures injected so far
RestoreAround(f, item, destination, tmp, n) ==
    LET original_path == PathFrom(item.original_path)
    IN  UNION {
          IF ~a.ok
          THEN {Unwound(IF a.collision THEN "Conflict" ELSE "BackendFailed",
                        b.fs, n + a.n + b.n, tmp) :
                   b \in PutBack(a.fs, tmp, original_path)}
          ELSE IF destination = original_path
          THEN {Unwound("Ok", a.fs, n + a.n, tmp)}
          ELSE UNION {
                 IF ~r.ok
                 THEN {Unwound("MoveFailed", b.fs,
                               n + a.n + (IF r.inj THEN 1 ELSE 0) + b.n, tmp) :
                          b \in PutBack(r.fs, tmp, original_path)}
                 ELSE {Unwound("Ok", b.fs, n + a.n + b.n, tmp) :
                          b \in PutBack(r.fs, tmp, original_path)} :
                 r \in Rename(a.fs, original_path, destination)} :
          a \in restore_all(f, item)}

\* OsTrash::restore_to (not macOS)
OsTrash_restore_to_unix(f, item_id, destination, pid) ==
    UNION {
      IF ~l.ok THEN {Unwound("BackendFailed", l.fs, 1, <<>>)}
      ELSE IF \A i \in l.items : i.id # item_id THEN {Unwound("NotFound", l.fs, 0, <<>>)}
      ELSE LET item == CHOOSE i \in l.items : i.id = item_id
               original_path == PathFrom(item.original_path)
               tmp == EvictPath(l.fs, original_path, pid)
           IN  IF destination # original_path /\ Exists(l.fs, original_path)
               THEN UNION {IF ~e.ok
                           THEN {Unwound("IoError", e.fs, IF e.inj THEN 1 ELSE 0, <<>>)}
                           ELSE RestoreAround(e.fs, item, destination, tmp, 0) :
                           e \in Rename(l.fs, original_path, tmp)}
               ELSE RestoreAround(l.fs, item, destination, <<>>, 0) :
      l \in os_limited_list(f)}

\* trash::os_limited::purge_all: every payload and record of the items is
\* removed, or the call fails having removed those of some of them
purge_all(f, items) ==
    LET gone(S) == UNION {Under(f, Join(NativeFiles, i.id))
                            \cup {Join(NativeInfo, InfoName(i.id))} : i \in S}
    IN  {Done(Del(f, gone(items)))}
        \cup {Fault(Del(f, gone(S))) : S \in SUBSET items \ {items}}

\* OsTrash::cleanup (not macOS); answer is what prompter.confirm returns
OsTrash_cleanup_unix(f, answer) ==
    UNION {
      IF ~l.ok THEN {Cleaned("BackendFailed", l.fs, TRUE, 0)}
      ELSE IF l.items = {} THEN {Cleaned("Nothing", l.fs, FALSE, 0)}
      ELSE IF answer = "err" THEN {Cleaned("PromptError", l.fs, FALSE, 1)}
      ELSE IF answer = "no" THEN {Cleaned("Cancelled", l.fs, FALSE, 1)}
      ELSE {Cleaned(IF p.ok THEN "Ok" ELSE "BackendFailed", p.fs, p.inj, 1) :
               p \in purge_all(l.fs, l.items)} :
      l \in os_limited_list(f)}

(***************************************************************************)
(* The restore flow (src/src/ops.rs run_restore) over the Managed handler. *)
(***************************************************************************)
\* the i-th candidate name of generate_rename_path
RenameCandidate(name, i) ==
    LET stem == IF IsUtf8(FileStem(name)) THEN FileStem(name) ELSE <<"file">>
        suffix == <<DOT, "restored">> \o (IF i = 1 THEN <<>> ELSE Decimal(i))
    IN  IF HasExtension(name) /\ IsUtf8(Extension(name))
        THEN stem \o suffix \o <<DOT>> \o Extension(name)
        ELSE stem \o suffix

\* generate_rename_path: the first candidate beside path that does not exist.
\* Among n entries one of n + 1 candidates is free.
generate_rename_path(f, path) ==
    LET n == Cardinality(DOMAIN f)
        free(i) == ~Exists(f, Join(Parent(path), RenameCandidate(FileName(path), i)))
    IN  Join(Parent(path),
             RenameCandidate(FileName(path),
                 CHOOSE i \in 1..(n + 1) : free(i) /\ \A j \in 1..(i - 1) : ~free(j)))

\* the options of the conflict prompt in their order, and the index passed as
\* the default
ConflictOptions == <<"overwrite", "skip", "rename">>
ConflictDefault == 1

\* what Prompter::select can return: the index of an option the user picks,
\* the default it was given (the user accepts it; AutoConfirmPrompter), an error
SelectAnswers == {"pick0", "pick1", "pick2", "default", "err"}

\* the index select returned, for an answer that is not an error
SelectedIndexFirst(answer, default) ==
    IF answer = "pick1" THEN 1 ELSE IF answer = "pick2" THEN 2 ELSE 0

SelectedIndex(answer, default) ==
    IF answer = "pick0" THEN 0
    ELSE IF answer = "pick1" THEN 1
    ELSE IF answer = "pick2" THEN 2
    ELSE default

\* something run_restore did for an item: a prompt, a file operation, a call
\* of the handler
Event(ev, id, path, res) ==
    [ev |-> ev, id |-> id, path |-> path, res |-> res, kind |-> ""]

\* the removal of the entry of that kind at path, for the overwrite choice
Removal(id, path, res, kind) ==
    [ev |-> "remove", id |-> id, path |-> path, res |-> res, kind |-> kind]

\* run_restore at some point of its loop, or returned: res is "" while it
\* runs; all_ok is the flag; n counts the file operations the environment
\* made fail; trace is what it did, in order
Run(res, all_ok, f, n, trace) ==
    [res |-> res, all_ok |-> all_ok, fs |-> f, n |-> n, trace |-> trace]

\* run_restore after a file operation with outcome r, recorded as ev
After(s, res, r, ev) ==
    Run(res, s.all_ok, r.fs, s.n + (IF r.inj THEN 1 ELSE 0), Append(s.trace, ev))

\* a run_restore that leaves the parent directory alone
EnsureParentNever(s, item) == {s}

\* "Ensure parent directory exists": create_dir_all(parent)?
EnsureParent(s, item) ==
    LET dest == PathFrom(item.original_path)
    IN  IF dest # <<>> /\ ~Exists(s.fs, Parent(dest))
        THEN {After(s, IF r.ok THEN "" ELSE "IoError", r,
                    Event("create_dir_all", item.id, Parent(dest),
                          IF r.ok THEN "Ok" ELSE "Err")) :
                 r \in CreateDirAll(s.fs, <<>>, Parent(dest))}
        ELSE {s}

\* where run_restore stands after the conflict handling of an item: go says
\* whether restore_to is to be called, dest with which destination
Decided(s, go, dest) == [s |-> s, go |-> go, dest |-> dest]

\* a removal of what dest points to, a final symbolic link followed: not the
\* removal of the overwrite choice
RemoveOccupantFollowing(f, dest) ==
    IF IsDir(f, dest) THEN RemoveDirAll(f, Follow(f, dest).p) ELSE RemoveFile(f, dest)

\* the removal of the overwrite choice: symlink_metadata(&dest) says a
\* directory only for a real directory; a link is unlinked
RemoveOccupant(f, dest) ==
    IF f[Phys(f, dest).p].k = "dir" THEN RemoveDirAll(f, dest) ELSE RemoveFile(f, dest)

\* choice 0: symlink_metadata(&dest)?, then remove_dir_all or remove_file
Overwrite(s, item, dest, rename_dest, answer) ==
    {Decided(After(s, "IoError", Fault(s.fs),
                   Event("select", item.id, rename_dest, answer)), FALSE, dest)}
    \cup {Decided(After(After(s, "", Done(s.fs),
                              Event("select", item.id, rename_dest, answer)),
                        IF r.ok THEN "" ELSE "IoError", r,
                        Removal(item.id, dest, IF r.ok THEN "Ok" ELSE "Err",
                                s.fs[Phys(s.fs, dest).p].k)),
                  r.ok, dest) :
             r \in RemoveOccupant(s.fs, dest)}

\* "Conflict handling" of an item whose parent directory exists
Conflict(s, item, is_tty, force) ==
    LET dest == PathFrom(item.original_path)
        rename_dest == generate_rename_path(s.fs, dest)
    IN  IF ~Exists(s.fs, dest) THEN {Decided(s, TRUE, dest)}
        ELSE IF ~is_tty /\ force
        THEN {Decided(After(s, "", Done(s.fs),
                            Event("skipped", item.id, dest, "")), FALSE, dest)}
        ELSE UNION {
               IF answer = "err"
               THEN {Decided(After(s, "PromptError", Done(s.fs),
                                   Event("select", item.id, rename_dest, answer)),
                             FALSE, dest)}
               ELSE IF SelectedIndex(answer, ConflictDefault) = 0
               THEN Overwrite(s, item, dest, rename_dest, answer)
               ELSE IF SelectedIndex(answer, ConflictDefault) = 1
               THEN {Decided(After(s, "", Done(s.fs),
                                   Event("select", item.id, rename_dest, answer)),
                             FALSE, dest)}
               ELSE {Decided(After(s, "", Done(s.fs),
                                   Event("select", item.id, rename_dest, answer)),
                             TRUE, rename_dest)} :
               answer \in SelectAnswers}

\* what is at the parent of dest: a directory (or a link to one), something
\* else, nothing
ParentKind(f, dest) ==
    IF IsDir(f, Parent(dest)) THEN "dir"
    ELSE IF Exists(f, Parent(dest)) THEN "other" ELSE "none"

\* the call handler.restore_to(&item.id, &dest) made in the file system f: the
\* event keeps, as its kind, what the parent of dest was at the call
Called(id, dest, res, f) ==
    [ev |-> "restore_to", id |-> id, path |-> dest, res |-> res,
     kind |-> ParentKind(f, dest)]

\* match handler.restore_to(&item.id, &dest): an error clears the flag
CallRestore(s, item, dest) ==
    {Run("", s.all_ok /\ o.res = "Ok", o.fs, s.n + (IF o.inj THEN 1 ELSE 0),
         Append(s.trace, Called(item.id, dest, o.res, s.fs))) :
        o \in ManagedTrash_restore_to(s.fs, item.id, dest)}

\* the body of the loop for one selected item
RestoreItem(s, item, is_tty, force) ==
    UNION {IF p.res # "" THEN {p}
           ELSE UNION {IF c.s.res # "" \/ ~c.go THEN {c.s}
                       ELSE CallRestore(c.s, item, c.dest) :
                       c \in Conflict(p, item, is_tty, force)} :
           p \in EnsureParent(s, item)}

RECURSIVE RestoreLoop(_, _, _, _, _)
\* "for idx in selected": from each state of S that is still running, the
\* states after the next item; budget bounds the failures of the environment
RestoreLoop(S, selected, is_tty, force, budget) ==
    IF selected = <<>> THEN S
    ELSE RestoreLoop(
            {t \in UNION {IF s.res # "" THEN {s}
                          ELSE RestoreItem(s, Head(selected), is_tty, force) :
                          s \in S} : t.n <= budget},
            Tail(selected), is_tty, force, budget)

\* the orders in which the entries of a set can come (read_dir gives the
\* records in no particular order)
Orders(S) ==
    {o \in [1..Cardinality(S) -> S] : \A i, j \in 1..Cardinality(S) : o[i] = o[j] => i = j}

\* what run_restore returned (Ok(all_ok) is res "Ok"), with the items it had
\* selected, in their order
Returned_run(r, selected) ==
    [res |-> IF r.res = "" THEN "Ok" ELSE r.res, all_ok |-> r.all_ok, fs |-> r.fs,
     n |-> r.n, inj |-> r.n > 0, trace |-> r.trace, selected |-> selected]

\* run_restore from the selection on
RestoreSelected(f, selected, is_tty, force, budget) ==
    {Returned_run(r, selected) :
        r \in RestoreLoop({Run("", TRUE, f, 0, <<>>)}, selected, is_tty, force, budget)}

\* a run_restore that goes on to the selection without looking at the list
run_restore_selecting(f, is_tty, force, targets, budget) ==
    {Returned_run(Run(IF is_tty THEN "Cancelled"
                      ELSE IF force THEN "" ELSE "CannotPrompt", TRUE, f, 0, <<>>), <<>>)}

\* run_restore; targets are the arguments of the command line after the flags
run_restore(f, is_tty, force, targets, budget) ==
    IF Len(targets) > 1 THEN {Returned_run(Run("Usage", TRUE, f, 0, <<>>), <<>>)}
    ELSE LET filter == IF targets = <<>> \/ ~IsUtf8(targets[1]) THEN None
                       ELSE Some(targets[1])
         IN  UNION {
               IF ~l.ok THEN {Returned_run(Run("IoError", TRUE, l.fs,
                                                 IF l.inj THEN 1 ELSE 0, <<>>), <<>>)}
               ELSE IF l.items = {}
               THEN {Returned_run(Run("Nothing", TRUE, l.fs, 0, <<>>), <<>>)}
               ELSE IF is_tty
               THEN {Returned_run(Run("PromptError", TRUE, l.fs, 0, <<>>), <<>>),
                     Returned_run(Run("Cancelled", TRUE, l.fs, 0, <<>>), <<>>)}
                    \cup UNION {UNION {RestoreSelected(l.fs, o, is_tty, force, budget) :
                                        o \in Orders(sel)} :
                                sel \in SUBSET l.items \ {{}}}
               ELSE IF force
               THEN UNION {RestoreSelected(l.fs, o, is_tty, force, budget) :
                              o \in Orders(l.items)}
               ELSE {Returned_run(Run("CannotPrompt", TRUE, l.fs, 0, <<>>), <<>>)} :
               l \in {x \in ManagedTrash_list_restorable(f, filter) : x.inj => budget > 0}}

(***************************************************************************)
(* The runs checked: the user's files, the calls and their arguments.      *)
(***************************************************************************)
DirA == << <<"a">> >>
DirB == << <<"b">> >>
FileAD == << <<"a">>, <<"d", DOT, "t">> >>
FileBD == << <<"b">>, <<"d", DOT, "t">> >>
LinkBL == << <<"b">>, <<"l">> >>
NoSuchFile == << <<"a">>, <<"z">> >>

Times == {7}
TrashTargets == {FileAD, FileBD, DirA}
AltDest == FileAD
MissingId == <<"n", "o">>
Patterns == {<<"d">>, <<"a">>, <<"1">>, <<"z">>}
Filters == {NoFilter} \cup {Some(pat) : pat \in Patterns}
Answers == {"yes", "no", "err"}

Idle ==
    [op |-> "none", path |-> <<>>, id |-> <<>>, dest |-> <<>>, filter |-> None,
     res |-> "", items |-> {}, asked |-> 0, link |-> FALSE,
     snap |-> <<>>, newids |-> {}, rt |-> FALSE, tmp |-> <<>>,
     tty |-> FALSE, force |-> FALSE, targets |-> <<>>, all_ok |-> TRUE,
     selected |-> <<>>, trace |-> <<>>, recursive |-> FALSE, dir |-> FALSE,
     env |-> <<>>]

ItemIds(items) == {i.id : i \in items}

\* what the user has at the start: two directories, a file d.t in each
Fixture ==
    [q \in {DirA, DirB, FileAD, FileBD} |->
        IF q = FileAD THEN FileEntry(<<"x">>)
        ELSE IF q = FileBD THEN FileEntry(<<"y">>)
        ELSE DirEntry]

Init ==
    /\ fs = Fixture
    /\ backend \in {"managed"}
    /\ faults = 0
    /\ onlyTrash = TRUE
    /\ procs = <<>>
    /\ last = Idle

\* the environment makes a file operation of the call fail, within MaxFaults
Allowed(o) == o.inj => faults < MaxFaults
Counted(o) == faults' = IF o.inj THEN faults + 1 ELSE faults

(***************************************************************************)
(* The calls on the Managed handler.                                       *)
(***************************************************************************)
Payloads(f) == Children(f, files_dir)

ManagedTrash(path, now) ==
    /\ backend = "managed"
    /\ Cardinality(Payloads(fs)) < MaxPayloads
    /\ \E o \in ManagedTrash_trash(fs, path, now) :
        /\ Allowed(o) /\ Counted(o)
        /\ fs' = o.fs
        /\ last' = [Idle EXCEPT
                !.op = "trash", !.path = path, !.res = o.res,
                !.link = IsSymlink(fs, path),
                !.snap = IF IsSymlink(fs, path) THEN Subtree(fs, Phys(fs, path).p)
                         ELSE IF Exists(fs, path) THEN Subtree(fs, Follow(fs, path).p)
                         ELSE <<>>,
                !.newids = ItemIds(ManagedItems(o.fs, NoFilter))
                              \ ItemIds(ManagedItems(fs, NoFilter))]
        /\ onlyTrash' = (onlyTrash /\ o.res = "Ok")
    /\ UNCHANGED <<backend, procs>>

ManagedList(filter) ==
    /\ backend = "managed"
    /\ \E o \in ManagedTrash_list_restorable(fs, filter) :
        /\ Allowed(o) /\ Counted(o)
        /\ fs' = o.fs
        /\ last' = [Idle EXCEPT
                !.op = "list", !.filter = filter,
                !.res = IF o.ok THEN "Ok" ELSE "IoError", !.items = o.items]
    /\ UNCHANGED <<backend, onlyTrash, procs>>

\* restore_to(item_id, destination) comes right after the successful trash of
\* destination, a file or a directory, that made the item
RoundTrip(before, item_id, destination) ==
    /\ before.op = "trash" /\ before.res = "Ok" /\ ~before.link
    /\ before.path = destination
    /\ item_id \in before.newids

ManagedRestore(item_id, destination) ==
    /\ backend = "managed"
    /\ \E o \in ManagedTrash_restore_to(fs, item_id, destination) :
        /\ Allowed(o) /\ Counted(o)
        /\ fs' = o.fs
        /\ last' = [Idle EXCEPT
                !.op = "restore_to", !.id = item_id, !.dest = destination,
                !.res = o.res,
                !.rt = RoundTrip(last, item_id, destination),
                !.snap = IF RoundTrip(last, item_id, destination)
                         THEN last.snap ELSE <<>>]
    /\ onlyTrash' = FALSE
    /\ UNCHANGED <<backend, procs>>

ManagedCleanup(answer) ==
    /\ backend = "managed"
    /\ \E o \in ManagedTrash_cleanup(fs, answer) :
        /\ Allowed(o) /\ Counted(o)
        /\ fs' = o.fs
        /\ last' = [Idle EXCEPT
                !.op = "cleanup", !.res = o.res, !.asked = o.asked]
    /\ onlyTrash' = FALSE
    /\ UNCHANGED <<backend, procs>>

\* restore_to is called to the original path of a listed item, or with any
\* stored name or a missing id to AltDest
RestoreArgs(f) ==
    {<<i.id, PathFrom(i.original_path)>> : i \in ManagedItems(f, NoFilter)}
    \cup {<<id, AltDest>> : id \in DirNames(f, files_dir) \cup {MissingId}}

Next ==
    \/ \E p \in TrashTargets, now \in Times : ManagedTrash(p, now)
    \/ \E filter \in Filters : ManagedList(filter)
    \/ \E a \in RestoreArgs(fs) : ManagedRestore(a[1], a[2])
    \/ \E answer \in Answers : ManagedCleanup(answer)

Spec == Init /\ [][Next]_vars

(***************************************************************************)
(* The runs with symbolic links, on the Managed backend and on OsTrash     *)
(* with the macOS records.                                                 *)
(***************************************************************************)
OsTimes == {7, 8}

\* what the link /b/l points to: a file, a directory, nothing
LinkTargets == {FileAD, DirA, NoSuchFile}

\* the user's files, the link /b/l to target, and the user's trash
FixtureOs(target) ==
    [q \in DOMAIN Fixture
           \cup {LinkBL, <<OsTrash_trash_dir[1]>>, OsTrash_trash_dir} |->
        IF q \in DOMAIN Fixture THEN Fixture[q]
        ELSE IF q = LinkBL THEN LinkEntry(target)
        ELSE DirEntry]

OsTargets == {LinkBL, FileAD, FileBD}

InitOs ==
    /\ fs \in {FixtureOs(target) : target \in LinkTargets}
    /\ backend \in {"managed", "macos"}
    /\ faults = 0
    /\ onlyTrash = TRUE
    /\ procs = <<>>
    /\ last = Idle

\* the time of a call gives uuid_v4 an id no record has
FreshTime(f, now) ==
    /\ InfoName(uuid_v4(now)) \notin DirNames(f, OsTrash_info_dir)
    /\ \A t \in OsTimes :
          t < now => InfoName(uuid_v4(t)) \in DirNames(f, OsTrash_info_dir)

OsTrash(path, now) ==
    /\ backend = "macos"
    /\ Cardinality(Children(fs, OsTrash_trash_dir)) < MaxPayloads
    /\ FreshTime(fs, now)
    /\ \E o \in OsTrash_trash(fs, path, now) :
        /\ Allowed(o) /\ Counted(o)
        /\ fs' = o.fs
        /\ last' = [Idle EXCEPT
                !.op = "trash", !.path = path, !.res = o.res,
                !.link = IsSymlink(fs, path),
                !.snap = IF IsSymlink(fs, path)
                         THEN Subtree(fs, Phys(fs, path).p) ELSE <<>>]
        /\ onlyTrash' = (onlyTrash /\ o.res = "Ok")
    /\ UNCHANGED <<backend, procs>>

OsList(filter) ==
    /\ backend = "macos"
    /\ \E o \in OsTrash_list_restorable(fs, filter) :
        /\ Allowed(o) /\ Counted(o)
        /\ fs' = o.fs
        /\ last' = [Idle EXCEPT
                !.op = "list", !.filter = filter,
                !.res = IF o.ok THEN "Ok" ELSE "IoError", !.items = o.items]
    /\ UNCHANGED <<backend, onlyTrash, procs>>

OsRestore(item_id, destination) ==
    /\ backend = "macos"
    /\ \E o \in OsTrash_restore_to(fs, item_id, destination) :
        /\ Allowed(o) /\ Counted(o)
        /\ fs' = o.fs
        /\ last' = [Idle EXCEPT
                !.op = "restore_to", !.id = item_id, !.dest = destination,
                !.res = o.res]
    /\ onlyTrash' = FALSE
    /\ UNCHANGED <<backend, procs>>

\* the user empties the trash with the Finder
EmptyOsTrash ==
    /\ backend = "macos"
    /\ Children(fs, OsTrash_trash_dir) # {}
    /\ fs' = Del(fs, Under(fs, OsTrash_trash_dir) \ {OsTrash_trash_dir})
    /\ last' = [Idle EXCEPT !.op = "emptied"]
    /\ onlyTrash' = FALSE
    /\ UNCHANGED <<backend, faults, procs>>

\* restore_to is called with the id of a record, stale or not, to the original
\* path it names, or with a missing id
OsRestoreArgs(f) ==
    {<<FileStem(m), PathFrom(MetaOf(f, m).original_path)>> : m \in MetaRecords(f)}
    \cup {<<MissingId, AltDest>>}

NextOs ==
    \/ \E p \in OsTargets, now \in Times : ManagedTrash(p, now)
    \/ ManagedList(NoFilter)
    \/ \E a \in RestoreArgs(fs) : ManagedRestore(a[1], a[2])
    \/ \E p \in OsTargets, now \in OsTimes : OsTrash(p, now)
    \/ OsList(NoFilter)
    \/ \E a \in OsRestoreArgs(fs) : OsRestore(a[1], a[2])
    \/ EmptyOsTrash

SpecOs == InitOs /\ [][NextOs]_vars

(***************************************************************************)
(* The runs on OsTrash with the native restore: files are trashed, the     *)
(* user puts something new where a trashed file was, and restore_to is     *)
(* called to the original path or to another one.                          *)
(***************************************************************************)
\* the user's files and an empty native trash
FixtureUnix ==
    [q \in DOMAIN Fixture
           \cup {<<NativeTrash[1]>>, NativeTrash, NativeFiles, NativeInfo} |->
        IF q \in DOMAIN Fixture THEN Fixture[q] ELSE DirEntry]

UnixTargets == {FileAD}

\* what the user puts at a path: a file, or a directory with a file in it
Occupants ==
    {[r \in {<<>>} |-> FileEntry(<<"z">>)],
     [r \in {<<>>, << <<"w">> >>} |->
        IF r = <<>> THEN DirEntry ELSE FileEntry(<<"w">>)]}

\* a destination that is not the original path: a free name beside /b/d.t
OtherDest == << <<"b">>, <<"r">> >>

InitUnix ==
    /\ fs = FixtureUnix
    /\ backend \in {"managed", "unix"}
    /\ faults = 0
    /\ onlyTrash = TRUE
    /\ procs = <<>>
    /\ last = Idle

\* the environment makes n file operations of the call fail, within MaxFaults
AllowedN(o) == faults + o.n <= MaxFaults
CountedN(o) == faults' = faults + o.n

UnixTrash(path, now) ==
    /\ backend = "unix"
    /\ Cardinality(Children(fs, NativeFiles)) < MaxPayloads
    /\ \E o \in OsTrash_trash_unix(fs, path, now) :
        /\ Allowed(o) /\ Counted(o)
        /\ fs' = o.fs
        /\ last' = [Idle EXCEPT !.op = "trash", !.path = path, !.res = o.res]
        /\ onlyTrash' = (onlyTrash /\ o.res = "Ok")
    /\ UNCHANGED <<backend, procs>>

\* the user creates a file or a directory where the first file trashed was,
\* before anything is restored or cleaned up
UserPut(path, occupant) ==
    /\ backend = "unix"
    /\ onlyTrash /\ last.op = "trash" /\ last.path = path
    /\ Cardinality(Children(fs, NativeFiles)) = 1
    /\ Phys(fs, path).ok /\ Phys(fs, path).p \notin DOMAIN fs
    /\ Exists(fs, Parent(path))
    /\ fs' = Plant(fs, Phys(fs, path).p, occupant)
    /\ last' = [Idle EXCEPT !.op = "put", !.path = path]
    /\ UNCHANGED <<backend, faults, onlyTrash, procs>>

UnixList(filter) ==
    /\ backend = "unix"
    /\ \E o \in OsTrash_list_restorable_unix(fs, filter) :
        /\ Allowed(o) /\ Counted(o)
        /\ fs' = o.fs
        /\ last' = [Idle EXCEPT
                !.op = "list", !.filter = filter,
                !.res = IF o.ok THEN "Ok" ELSE "IoError", !.items = o.items]
    /\ UNCHANGED <<backend, onlyTrash, procs>>

\* restore_to(item_id, destination); path and snap are the item's original
\* path and what is there when the call is made
UnixRestore(item_id, destination, pid) ==
    /\ backend = "unix"
    /\ \E o \in OsTrash_restore_to_unix(fs, item_id, destination, pid) :
        /\ AllowedN(o) /\ CountedN(o)
        /\ fs' = o.fs
        /\ last' = [Idle EXCEPT
                !.op = "restore_to", !.id = item_id, !.dest = destination,
                !.res = o.res, !.tmp = o.tmp,
                !.path = IF \E i \in NativeItems(fs) : i.id = item_id
                         THEN PathFrom((CHOOSE i \in NativeItems(fs) :
                                           i.id = item_id).original_path)
                         ELSE <<>>,
                !.snap = IF \E i \in NativeItems(fs) : i.id = item_id
                         THEN Subtree(fs, PathFrom((CHOOSE i \in NativeItems(fs) :
                                           i.id = item_id).original_path))
                         ELSE <<>>]
    /\ onlyTrash' = FALSE
    /\ UNCHANGED <<backend, procs>>

UnixCleanup(answer) ==
    /\ backend = "unix"
    /\ \E o \in OsTrash_cleanup_unix(fs, answer) :
        /\ Allowed(o) /\ Counted(o)
        /\ fs' = o.fs
        /\ last' = [Idle EXCEPT
                !.op = "cleanup", !.res = o.res, !.asked = o.asked]
    /\ onlyTrash' = FALSE
    /\ UNCHANGED <<backend, procs>>

\* restore_to is called with the id of a native item, to its original path or
\* to OtherDest while nothing is there, or with a missing id
UnixRestoreArgs(f) ==
    {<<i.id, PathFrom(i.original_path)>> : i \in NativeItems(f)}
    \cup {<<i.id, OtherDest>> : i \in {x \in NativeItems(f) : ~Exists(f, OtherDest)}}
    \cup {<<MissingId, OtherDest>>}

NextUnix ==
    \/ \E p \in UnixTargets, now \in Times : ManagedTrash(p, now)
    \/ \E answer \in Answers : ManagedCleanup(answer)
    \/ \E p \in UnixTargets, now \in Times : UnixTrash(p, now)
    \/ \E p \in UnixTargets, occupant \in Occupants : UserPut(p, occupant)
    \/ UnixList(NoFilter)
    \/ \E a \in UnixRestoreArgs(fs), pid \in Pids : UnixRestore(a[1], a[2], pid)
    \/ \E answer \in Answers : UnixCleanup(answer)

SpecUnix == InitUnix /\ [][NextUnix]_vars

(***************************************************************************)
(* The runs of the restore flow: files are trashed on the Managed handler, *)
(* the user puts something new where a trashed file was, then run_restore  *)
(* is called once.                                                         *)
(***************************************************************************)
RestoreTrashTargets == {FileAD, FileBD, DirA}

\* what the user puts at a path: a file, a directory with a file in it, a
\* link to the directory /b, a link to nothing
RestoreOccupants ==
    Occupants \cup {[r \in {<<>>} |-> LinkEntry(DirB)],
                    [r \in {<<>>} |-> LinkEntry(NoSuchFile)]}

\* the arguments after --restore: none, a pattern that occurs in /a/d.t only,
\* one that occurs nowhere, one that is not UTF-8, two patterns
RestoreTargets ==
    {<<>>, << <<"a">> >>, << <<"z">> >>, << <<BAD>> >>, << <<"a">>, <<"d">> >>}

\* the user creates something where the file just trashed was: anything
\* after the first trash, a file after a later one
Reoccupy(path, occupant) ==
    /\ backend = "managed"
    /\ last.op = "trash" /\ last.res = "Ok" /\ last.path = path
    /\ Cardinality(Payloads(fs)) = 1 \/ occupant[<<>>].k = "file"
    /\ Phys(fs, path).ok /\ Phys(fs, path).p \notin DOMAIN fs
    /\ Exists(fs, Parent(path))
    /\ fs' = Plant(fs, Phys(fs, path).p, occupant)
    /\ last' = [Idle EXCEPT !.op = "put", !.path = path]
    /\ UNCHANGED <<backend, faults, onlyTrash, procs>>

\* saferm --restore [-f] [targets], with or without a terminal
RunRestore(is_tty, force, targets) ==
    /\ backend = "managed"
    /\ \E o \in run_restore(fs, is_tty, force, targets, MaxFaults - faults) :
        /\ fs' = o.fs
        /\ faults' = faults + o.n
        /\ last' = [Idle EXCEPT
                !.op = "run_restore", !.res = o.res, !.all_ok = o.all_ok,
                !.tty = is_tty, !.force = force, !.targets = targets,
                !.selected = o.selected, !.trace = o.trace]
    /\ onlyTrash' = FALSE
    /\ UNCHANGED <<backend, procs>>

\* <<is_tty, force>>: with a terminal run_restore does not read cli.force
RestoreModes == {<<TRUE, FALSE>>, <<FALSE, TRUE>>, <<FALSE, FALSE>>}

\* nothing is trashed or put after run_restore has been called
NextRestore ==
    \/ /\ last.op # "run_restore"
       /\ \E p \in RestoreTrashTargets, now \in Times : ManagedTrash(p, now)
    \/ /\ last.op # "run_restore"
       /\ \E occupant \in RestoreOccupants : Reoccupy(FileAD, occupant)
    \/ /\ last.op # "run_restore"
       /\ \E mode \in RestoreModes, targets \in RestoreTargets :
              RunRestore(mode[1], mode[2], targets)

SpecRestore == Init /\ [][NextRestore]_vars

(***************************************************************************)
(* The rename choice: /a/d.t is in the trash, something is where it was,   *)
(* and the user has entries of his own under the first candidate names.    *)
(***************************************************************************)
\* /a/d.restored.t and /a/d.restored2.t
RenameSides ==
    {Join(DirA, <<"d", DOT, "restored", DOT, "t">>),
     Join(DirA, <<"d", DOT, "restored", "2", DOT, "t">>)}

\* a file of the user, a link to nothing
SideEntries == {FileEntry(<<"s">>), LinkEntry(NoSuchFile)}

\* the file system after trash(/a/d.t) returned Ok
TrashedAD ==
    (CHOOSE o \in ManagedTrash_trash(Fixture, FileAD, 7) : o.res = "Ok").fs

InitRename ==
    /\ \E occupant \in RestoreOccupants, S \in SUBSET RenameSides,
          e \in [RenameSides -> SideEntries] :
            fs = [q \in DOMAIN Plant(TrashedAD, FileAD, occupant) \cup S |->
                    IF q \in S THEN e[q] ELSE Plant(TrashedAD, FileAD, occupant)[q]]
    /\ backend = "managed"
    /\ faults = 0
    /\ onlyTrash = FALSE
    /\ procs = <<>>
    /\ last = Idle

NextRename ==
    /\ last.op # "run_restore"
    /\ \E mode \in RestoreModes, targets \in RestoreTargets :
           RunRestore(mode[1], mode[2], targets)

SpecRename == InitRename /\ [][NextRename]_vars

(***************************************************************************)
(* The info records: files whose names do not survive the Path= line, and  *)
(* records whose content is not what write_trashinfo wrote.                *)
(***************************************************************************)
\* a file whose name holds a newline, a file whose name is not UTF-8
NewlineFile == << <<"a">>, <<"n", NL, "m">> >>
BadFile == << <<"a">>, <<BAD>> >>

FixtureRecords ==
    [q \in {DirA, FileAD, NewlineFile, BadFile} |->
        IF q = DirA THEN DirEntry
        ELSE IF q = FileAD THEN FileEntry(<<"x">>)
        ELSE IF q = NewlineFile THEN FileEntry(<<"y">>)
        ELSE FileEntry(<<"w">>)]

RecordTargets == {FileAD, NewlineFile, BadFile}

\* contents a record can have that write_trashinfo did not write: no Path
\* line; an unknown line before the Path and the date; no DeletionDate line;
\* a DeletionDate that is no date; bytes that are not UTF-8; nothing
CorruptTexts ==
    {<<"[Trash Info]", NL, "DeletionDate=", "7", NL>>,
     <<"[Trash Info]", NL, "Foo=", "1", NL, "Path=", SLASH, "a", SLASH, "d", DOT, "t", NL,
       "DeletionDate=", "7", NL>>,
     <<"[Trash Info]", NL, "Path=", SLASH, "a", SLASH, "d", DOT, "t", NL>>,
     <<"[Trash Info]", NL, "Path=", SLASH, "a", SLASH, "d", DOT, "t", NL,
       "DeletionDate=", "z", NL>>,
     <<BAD>>,
     <<>>}

InitRecords ==
    /\ fs = FixtureRecords
    /\ backend = "managed"
    /\ faults = 0
    /\ onlyTrash = TRUE
    /\ procs = <<>>
    /\ last = Idle

\* something other than saferm rewrites a record, once per record
Corrupt(n, text) ==
    /\ backend = "managed"
    /\ n \in DirNames(fs, info_dir)
    /\ fs[Join(info_dir, n)].d \notin CorruptTexts
    /\ fs' = Put(fs, Join(info_dir, n), FileEntry(text))
    /\ last' = [Idle EXCEPT !.op = "corrupt"]
    /\ onlyTrash' = FALSE
    /\ UNCHANGED <<backend, faults, procs>>

NextRecords ==
    \/ \E p \in RecordTargets, now \in Times : ManagedTrash(p, now)
    \/ \E n \in DirNames(fs, info_dir), text \in CorruptTexts : Corrupt(n, text)
    \/ ManagedList(NoFilter)

SpecRecords == InitRecords /\ [][NextRecords]_vars

(***************************************************************************)
(* ManagedTrash::trash step by step, in one process or in two that share   *)
(* the holding area; a process can stop at any step.                       *)
(***************************************************************************)
IdleProc ==
    [pc |-> "idle", path |-> <<>>, src |-> <<>>, canonical |-> <<>>,
     trash_name |-> <<>>, snap |-> <<>>, moved |-> FALSE, res |-> ""]

StepTargets == {FileAD, FileBD, DirA}

InFlight(p) == procs[p].pc \in {"check", "dirs", "canon", "probe", "rename", "info"}

Returned(p, res) == procs' = [procs EXCEPT ![p].pc = "done", ![p].res = res]

\* a process enters trash(path); src and snap are what the path holds then
Begin(p, path) ==
    /\ ~InFlight(p)
    /\ Cardinality(Payloads(fs)) < MaxPayloads
    /\ procs' = [procs EXCEPT ![p] =
            [IdleProc EXCEPT
                !.pc = "check", !.path = path,
                !.src = IF Exists(fs, path) THEN Follow(fs, path).p ELSE <<>>,
                !.snap = IF Exists(fs, path) /\ ~IsSymlink(fs, path)
                         THEN Subtree(fs, Follow(fs, path).p) ELSE <<>>]]
    /\ UNCHANGED <<fs, backend, faults, onlyTrash, last>>

\* path.is_symlink(), and the removal of the link
CheckLink(p) ==
    /\ procs[p].pc = "check"
    /\ IF IsSymlink(fs, procs[p].path)
       THEN \E r \in RemoveFile(fs, procs[p].path) :
               /\ Allowed(r) /\ Counted(r)
               /\ fs' = r.fs
               /\ Returned(p, IF r.ok THEN "Ok" ELSE "IoError")
       ELSE /\ procs' = [procs EXCEPT ![p].pc = "dirs"]
            /\ UNCHANGED <<fs, faults>>
    /\ UNCHANGED <<backend, onlyTrash, last>>

\* self.ensure_dirs()?
EnsureDirs(p) ==
    /\ procs[p].pc = "dirs"
    /\ \E e \in ensure_dirs(fs) :
        /\ Allowed(e) /\ Counted(e)
        /\ fs' = e.fs
        /\ IF e.ok THEN procs' = [procs EXCEPT ![p].pc = "canon"]
           ELSE Returned(p, "IoError")
    /\ UNCHANGED <<backend, onlyTrash, last>>

\* path.canonicalize()?
Canonicalize(p) ==
    /\ procs[p].pc = "canon"
    /\ IF Exists(fs, procs[p].path)
       THEN \/ /\ procs' = [procs EXCEPT ![p].pc = "probe",
                        ![p].canonical = Follow(fs, procs[p].path).p]
               /\ UNCHANGED faults
            \/ /\ faults < MaxFaults
               /\ faults' = faults + 1
               /\ Returned(p, "IoError")
       ELSE Returned(p, "NotFound") /\ UNCHANGED faults
    /\ UNCHANGED <<fs, backend, onlyTrash, last>>

\* self.unique_name(original_name): the probe for a free name
Probe(p) ==
    /\ procs[p].pc = "probe"
    /\ procs' = [procs EXCEPT ![p].pc = "rename",
            ![p].trash_name = unique_name(fs, OriginalName(procs[p].path))]
    /\ UNCHANGED <<fs, backend, faults, onlyTrash, last>>

\* fs::rename(&canonical, &dest)?
MoveIn(p) ==
    /\ procs[p].pc = "rename"
    /\ \E r \in Rename(fs, procs[p].canonical,
                        Join(files_dir, procs[p].trash_name)) :
        /\ Allowed(r) /\ Counted(r)
        /\ fs' = r.fs
        /\ IF r.ok THEN procs' = [procs EXCEPT ![p].pc = "info", ![p].moved = TRUE]
           ELSE Returned(p, "MoveFailed")
    /\ UNCHANGED <<backend, onlyTrash, last>>

\* self.write_trashinfo(&trash_name, &canonical)?
WriteInfo(p, now) ==
    /\ procs[p].pc = "info"
    /\ \E w \in write_trashinfo(fs, procs[p].trash_name, procs[p].canonical, now) :
        /\ Allowed(w) /\ Counted(w)
        /\ fs' = w.fs
        /\ Returned(p, IF w.ok THEN "Ok" ELSE "InfoFailed")
    /\ UNCHANGED <<backend, onlyTrash, last>>

\* the process is killed, or the machine stops, where it is
Crash(p) ==
    /\ InFlight(p)
    /\ procs' = [procs EXCEPT ![p].pc = "crashed"]
    /\ UNCHANGED <<fs, backend, faults, onlyTrash, last>>

NextStep ==
    \/ \E p \in DOMAIN procs, path \in StepTargets : Begin(p, path)
    \/ \E p \in DOMAIN procs : CheckLink(p)
    \/ \E p \in DOMAIN procs : EnsureDirs(p)
    \/ \E p \in DOMAIN procs : Canonicalize(p)
    \/ \E p \in DOMAIN procs : Probe(p)
    \/ \E p \in DOMAIN procs : MoveIn(p)
    \/ \E p \in DOMAIN procs, now \in Times : WriteInfo(p, now)
    \/ \E p \in DOMAIN procs : Crash(p)

InitProcs(ids) ==
    /\ fs = Fixture
    /\ backend = "managed"
    /\ faults = 0
    /\ onlyTrash = TRUE
    /\ procs = [p \in ids |-> IdleProc]
    /\ last = Idle

\* one process at a time
SpecStep == InitProcs({"p"}) /\ [][NextStep]_vars

\* two processes
SpecConc == InitProcs({"p", "q"}) /\ [][NextStep]_vars

(***************************************************************************)
(* Properties of the Managed backend.                                      *)
(***************************************************************************)
Restorable(f) == ManagedItems(f, NoFilter)

\* C1: when restore_to(id, p) returns Ok right after the trash(p) of a file or
\* directory p that returned Ok and made the item id, p holds the content and
\* the tree it held before the trash, and list_restorable(None) no longer
\* returns id.
C1_RoundTrip ==
    (last.op = "restore_to" /\ last.res = "Ok" /\ last.rt) =>
        /\ Exists(fs, last.dest)
        /\ Subtree(fs, Follow(fs, last.dest).p) = last.snap
        /\ last.id \notin ItemIds(Restorable(fs))

\* a directory with a file in it has made the round trip
C1_Witness ==
    /\ last.op = "restore_to" /\ last.res = "Ok" /\ last.rt
    /\ Cardinality(DOMAIN last.snap) > 1

\* C9: list_restorable(Some(pat)) returns exactly the items of
\* list_restorable(None) whose stored name or original path contains pat; no
\* item when pat is in none of them.
C9_FilterExact ==
    (last.op = "list" /\ last.res = "Ok" /\ last.filter.some) =>
        last.items = {i \in Restorable(fs) :
                        \/ Contains(i.id, last.filter.v)
                        \/ Contains(i.original_path, last.filter.v)}

\* a filtered listing returned one item for its original path alone and left
\* another item out
C9_Witness ==
    /\ last.op = "list" /\ last.res = "Ok" /\ last.filter.some
    /\ \E i \in last.items : ~Contains(i.id, last.filter.v)
    /\ Restorable(fs) \ last.items # {}

\* C10: a restore_to that fails returns NotFound exactly when no payload is
\* under the id, MoveFailed otherwise, and leaves every payload, every info
\* record and the destination as they were.
C10_FailedRestoreChangesNothing ==
    [][(last'.op = "restore_to" /\ last'.res # "Ok") =>
          /\ fs' = fs
          /\ last'.res = IF Exists(fs, Join(files_dir, last'.id))
                         THEN "MoveFailed" ELSE "NotFound"]_vars

\* a restore_to returned MoveFailed for an item that has its info record
C10_Witness ==
    /\ last.op = "restore_to" /\ last.res = "MoveFailed"
    /\ Exists(fs, Join(files_dir, last.id))
    /\ Exists(fs, Join(info_dir, InfoName(last.id)))

\* the name the claim gives the payload of a file named name: the name itself
\* when no payload has it, else the first free name.1.ext, name.2.ext, ...
StoredName(f, name) ==
    IF name \notin DirNames(f, files_dir) THEN name
    ELSE Candidate(name,
            CHOOSE i \in 1..(Cardinality(DirNames(f, files_dir)) + 1) :
                /\ Candidate(name, i) \notin DirNames(f, files_dir)
                /\ \A j \in 1..(i - 1) : Candidate(name, j) \in DirNames(f, files_dir))

\* C2: while every call has been a trash that returned Ok, a trash call
\* changes and removes no payload and no info record that was there, and a
\* trash of a file or directory that returns Ok adds one payload, under the
\* original name if that was free and else under the first free name.N.ext,
\* with the content the file had, and its info record.
C2_SequentialCollisionSafety ==
    [][(last'.op = "trash" /\ onlyTrash) =>
          /\ \A q \in Under(fs, base_dir) : q \in DOMAIN fs' /\ fs'[q] = fs[q]
          /\ (last'.res = "Ok" /\ ~last'.link) =>
                LET n == StoredName(fs, FileName(last'.path))
                IN  /\ DirNames(fs', files_dir) = DirNames(fs, files_dir) \cup {n}
                    /\ n \notin DirNames(fs, files_dir)
                    /\ Subtree(fs', Join(files_dir, n)) = last'.snap
                    /\ InfoName(n) \in DirNames(fs', info_dir)]_vars

\* the second of two files named d.t is stored as d.1.t next to the first,
\* each with its own content
C2_Witness ==
    /\ last.op = "trash" /\ last.res = "Ok" /\ onlyTrash
    /\ last.newids = {<<"d", DOT, "1", DOT, "t">>}
    /\ Exists(fs, Join(files_dir, <<"d", DOT, "t">>))
    /\ fs[Join(files_dir, <<"d", DOT, "t">>)] # fs[Join(files_dir, <<"d", DOT, "1", DOT, "t">>)]

\* every payload has its info record <stored-name>.trashinfo and every info
\* record has its payload
Paired(f) == DirNames(f, info_dir) = {InfoName(n) : n \in DirNames(f, files_dir)}

EndsItem(step, i) ==
    \/ step.op = "restore_to" /\ step.res = "Ok" /\ step.id = i.id
    \/ step.op = "cleanup" /\ step.asked = 1 /\ step.res \in {"Ok", "IoError"}

\* C6: a trash(p) that returns Ok makes an item that list_restorable(None)
\* returns with p as its original path, and every item list_restorable(None)
\* returns is returned with the same id and original path after any step but
\* its own successful restore_to or a confirmed cleanup.
C6_Lifecycle ==
    [][/\ (last'.op = "trash" /\ last'.res = "Ok" /\ ~last'.link) =>
            \E i \in Restorable(fs') :
                i.id \in last'.newids /\ PathFrom(i.original_path) = last'.path
       /\ fs' # fs =>
            \A i \in Restorable(fs) :
                ~EndsItem(last', i) =>
                    \E j \in Restorable(fs') :
                        j.id = i.id /\ j.original_path = i.original_path]_vars

\* an item is still listed after the successful restore_to of another item
C6_Witness ==
    /\ last.op = "restore_to" /\ last.res = "Ok"
    /\ \E i \in Restorable(fs) : i.id # last.id

(***************************************************************************)
(* Properties of both backends.                                            *)
(***************************************************************************)
\* the payload of the item and its record exist
Backed(f, handler, i) ==
    IF handler = "managed"
    THEN /\ Exists(f, Join(files_dir, i.id))
         /\ Exists(f, Join(info_dir, InfoName(i.id)))
    ELSE /\ Exists(f, Join(OsTrash_info_dir, InfoName(i.id)))
         /\ Exists(f, PathFrom(MetaOf(f, InfoName(i.id)).trash_path))

\* C5: for every item a listing returns, the payload (Managed: files/<id>,
\* macOS records: the recorded trash path) and the record exist when the
\* listing returns; so a payload without record and a record without payload
\* are not returned.
C5_NoDanglingItem ==
    (last.op = "list" /\ last.res = "Ok") =>
        \A i \in last.items : Backed(fs, backend, i)

\* a listing on macOS returned an item and not the record left from a trash
\* that has been emptied since
C5_Witness ==
    /\ backend = "macos" /\ last.op = "list" /\ last.res = "Ok"
    /\ last.items # {}
    /\ \E m \in DirNames(fs, OsTrash_info_dir) : FileStem(m) \notin ItemIds(last.items)

\* C8: a trash of a path that is a symbolic link, on either backend, removes
\* the link and changes nothing else when it returns Ok, and changes nothing
\* when it fails: the target, the payload store, the platform trash and the
\* records are as before.
C8_SymlinkOnly ==
    [][(last'.op = "trash" /\ last'.link) =>
          fs' = IF last'.res = "Ok" THEN Del(fs, {Phys(fs, last'.path).p}) ELSE fs]_vars

\* OsTrash has removed a link to a directory, and the directory has its file
C8_Witness ==
    /\ backend = "macos" /\ last.op = "trash" /\ last.link /\ last.res = "Ok"
    /\ last.snap[<<>>].to = DirA
    /\ ~IsSymlink(fs, last.path)
    /\ Exists(fs, FileAD)

(***************************************************************************)
(* Properties of the steps of ManagedTrash::trash.                         *)
(***************************************************************************)
\* C3: in every state of a trash(path) of a file or directory, between any
\* two of its steps, after it returned and after the process stopped at any
\* step, what the path held when trash was entered is at the original place
\* or is a payload of the store; and once the rename has moved it in, the
\* payload under the stored name is what the path held.
C3_DataPreserved ==
    \A p \in DOMAIN procs :
        /\ DOMAIN procs[p].snap # {} =>
              \/ Subtree(fs, procs[p].src) = procs[p].snap
              \/ \E n \in DirNames(fs, files_dir) :
                    Subtree(fs, Join(files_dir, n)) = procs[p].snap
        /\ procs[p].moved =>
              Subtree(fs, Join(files_dir, procs[p].trash_name)) = procs[p].snap

\* the process stopped between the rename and the info write: the payload is
\* in the store, without record
C3_Witness ==
    \E p \in DOMAIN procs :
        /\ procs[p].pc = "crashed" /\ procs[p].moved
        /\ DOMAIN procs[p].snap # {}
        /\ procs[p].src \notin DOMAIN fs
        /\ ~Exists(fs, Join(info_dir, InfoName(procs[p].trash_name)))

\* C7 as stated: when two processes have each returned Ok from the trash of
\* two different files of one name, the payloads are under distinct stored
\* names, each with the content of its file, and each has its info record
\* naming its file.
C7_ConcurrentCollisionSafety ==
    \A p, q \in DOMAIN procs :
        (/\ p # q
         /\ procs[p].pc = "done" /\ procs[p].res = "Ok"
         /\ procs[q].pc = "done" /\ procs[q].res = "Ok"
         /\ procs[p].canonical # procs[q].canonical
         /\ FileName(procs[p].path) = FileName(procs[q].path)) =>
            /\ procs[p].trash_name # procs[q].trash_name
            /\ Subtree(fs, Join(files_dir, procs[p].trash_name)) = procs[p].snap
            /\ \E i \in Restorable(fs) :
                  /\ i.id = procs[p].trash_name
                  /\ PathFrom(i.original_path) = procs[p].canonical

(***************************************************************************)
(* Properties of OsTrash with the native restore.                          *)
(***************************************************************************)
\* C11 as stated: when restore_to is called with a destination other than the
\* item's original path and evicted the occupant of the original path, and a
\* later step fails (the native restore, or the move to the destination), the
\* occupant is back at the original path, as it was, when the error returns.
C11_EvictionRolledBack ==
    [][(last'.op = "restore_to" /\ last'.tmp # <<>> /\ last'.res # "Ok") =>
          Subtree(fs', last'.path) = last'.snap]_vars

\* C20: in every state in which files/ of the Managed holding area has an
\* entry, a cleanup call asks the prompter once unless reading files/ fails
\* before, and never twice; when the answer is no it returns cancelled with
\* the file system unchanged; when the answer is yes and no file operation
\* fails it returns Ok, and whenever it returns Ok files/ and info/ are empty,
\* list_restorable(None) has no item, and everything outside the holding area
\* is as before.
C20_CleanupGated ==
    (backend = "managed" /\ Exists(fs, files_dir) /\ Children(fs, files_dir) # {}) =>
        /\ \A answer \in Answers : \A o \in ManagedTrash_cleanup(fs, answer) :
              /\ o.asked \in {0, 1}
              /\ (~o.inj \/ o.res # "IoError" \/ o.fs # fs) => o.asked = 1
        /\ \A o \in ManagedTrash_cleanup(fs, "no") :
              ~o.inj => o.res = "Cancelled" /\ o.fs = fs
        /\ \A o \in ManagedTrash_cleanup(fs, "yes") :
              /\ ~o.inj => o.res = "Ok"
              /\ o.res = "Ok" =>
                    /\ Children(o.fs, files_dir) = {} /\ Children(o.fs, info_dir) = {}
                    /\ ManagedItems(o.fs, NoFilter) = {}
                    /\ \A q \in DOMAIN fs :
                          ~IsPrefix(base_dir, q) => q \in DOMAIN o.fs /\ o.fs[q] = fs[q]

\* a confirmed cleanup returned Ok after the directory /a had been trashed:
\* both stores are there and empty, and /a is nowhere
C20_Witness ==
    /\ last.op = "cleanup" /\ last.res = "Ok" /\ last.asked = 1
    /\ DirA \notin DOMAIN fs
    /\ Exists(fs, files_dir) /\ Children(fs, files_dir) = {}
    /\ Exists(fs, info_dir) /\ Children(fs, info_dir) = {}

\* the trash of the backend of the run has no entries
TrashEmpty(f) ==
    IF backend = "managed"
    THEN ~Exists(f, files_dir) \/ Children(f, files_dir) = {}
    ELSE Children(f, NativeFiles) = {} /\ Children(f, NativeInfo) = {}

\* C19: on the Managed backend and on OsTrash with the native restore, every
\* cleanup call in which no file operation fails and that finds the trash
\* without entries (the payload directory missing or empty) returns
\* nothing-to-clean with success, does not ask the prompter and leaves the file
\* system as it is; and the trash is without entries after every cleanup that
\* returned so or that was confirmed and succeeded, so the same holds for the
\* next call and for each one after it.
C19_CleanupOnEmpty ==
    [][(last'.op = "cleanup" /\ faults' = faults) =>
          /\ TrashEmpty(fs) =>
                /\ last'.res = "Nothing" /\ last'.asked = 0
                /\ fs' = fs
          /\ last'.res \in {"Ok", "Nothing"} => TrashEmpty(fs')]_vars

\* cleanup found nothing in a holding area that exists, after /a/d.t was
\* trashed and cleaned away
C19_Witness ==
    /\ backend = "managed" /\ faults = 0
    /\ last.op = "cleanup" /\ last.res = "Nothing" /\ last.asked = 0
    /\ Exists(fs, files_dir) /\ FileAD \notin DOMAIN fs

(***************************************************************************)
(* Properties of the restore flow.                                         *)
(***************************************************************************)
Range(seq) == {seq[i] : i \in 1..Len(seq)}

\* the destinations run_restore had for the items it selected
Destinations(step) == {PathFrom(i.original_path) : i \in Range(step.selected)}

\* the entry at path, with all below it, is in g as it is in f
SameAt(f, g, path) == Subtree(g, path) = Subtree(f, path)

\* C12 as stated: in run_restore without a terminal and with force, nothing is
\* asked and nothing removed; an item whose destination exists is skipped, its
\* payload and record left as they were; when the run is not cut short every
\* selected item is skipped or handed to restore_to; at most one item lands
\* at a destination; and every entry that was at a destination path before the
\* run is there, unchanged, after it.
C12_ScriptedRestoreNeverOverwrites ==
    [][(last'.op = "run_restore" /\ ~last'.tty /\ last'.force) =>
          /\ \A e \in Range(last'.trace) : e.ev \notin {"select", "remove"}
          /\ \A e \in Range(last'.trace) :
                e.ev = "skipped" =>
                    /\ SameAt(fs, fs', Join(files_dir, e.id))
                    /\ SameAt(fs, fs', Join(info_dir, InfoName(e.id)))
                    /\ \A o \in Range(last'.trace) : o.ev = "restore_to" => o.id # e.id
          /\ last'.res = "Ok" =>
                \A i \in Range(last'.selected) :
                    \E e \in Range(last'.trace) :
                        e.id = i.id /\ e.ev \in {"skipped", "restore_to"}
          /\ \A d, e \in Range(last'.trace) :
                (/\ d.ev = "restore_to" /\ d.res = "Ok"
                 /\ e.ev = "restore_to" /\ e.res = "Ok"
                 /\ d.path = e.path) => d.id = e.id
          /\ \A q \in Destinations(last') :
                (Phys(fs, q).ok /\ Phys(fs, q).p \in DOMAIN fs) => SameAt(fs, fs', q)]_vars

\* the original path run_restore had for the selected item id
OrigOf(step, id) ==
    PathFrom((CHOOSE i \in Range(step.selected) : i.id = id).original_path)

\* the event removed, created or moved something at, above or below path
Touches(e, path) ==
    /\ e.ev \in {"remove", "restore_to", "create_dir_all"}
    /\ IsPrefix(e.path, path) \/ IsPrefix(path, e.path)

\* C13: in every run of run_restore, when the user picks overwrite for an
\* item, the next thing done is the removal of what is at the item's original
\* path, and when the removal succeeded restore_to is then called, once, for
\* that item with that path; it fails only when the environment makes it
\* fail, and when it succeeded and nothing later in the run touched the path,
\* the path holds the payload.  When what was removed was a symbolic link that
\* was there before the run, everything at and below the link's target is as
\* before.
C13_OverwriteRemovesThenRestores ==
    [][last'.op = "run_restore" =>
          LET t == last'.trace
          IN  \A k \in 1..Len(t) :
                (t[k].ev = "select" /\ t[k].res = "pick0") =>
                    LET dest == OrigOf(last', t[k].id)
                    IN  /\ k < Len(t) =>
                              /\ t[k + 1].ev = "remove"
                              /\ t[k + 1].id = t[k].id /\ t[k + 1].path = dest
                        /\ (k < Len(t) /\ t[k + 1].res = "Ok") =>
                              /\ k + 1 < Len(t)
                              /\ t[k + 2].ev = "restore_to"
                              /\ t[k + 2].id = t[k].id /\ t[k + 2].path = dest
                              /\ t[k + 2].res # "Ok" => faults' > faults
                              /\ (/\ t[k + 2].res = "Ok"
                                  /\ \A j \in (k + 3)..Len(t) : ~Touches(t[j], dest)) =>
                                    Subtree(fs', dest) = Subtree(fs, Join(files_dir, t[k].id))
                        /\ \A j \in 1..Len(t) :
                              (t[j].ev = "restore_to" /\ t[j].id = t[k].id) => j = k + 2
                        /\ (/\ k < Len(t) /\ t[k + 1].kind = "link"
                            /\ \A j \in 1..(k - 1) : ~Touches(t[j], dest)) =>
                              \A q \in Under(fs, fs[dest].to) :
                                  q \in DOMAIN fs' /\ fs'[q] = fs[q]]_vars

\* overwrite was picked where a link to the directory /b was: the link is
\* gone, the item is in its place, and /b has its file
C13_Witness ==
    /\ last.op = "run_restore" /\ Len(last.trace) = 3
    /\ last.trace[1].res = "pick0"
    /\ last.trace[2].ev = "remove" /\ last.trace[2].kind = "link"
    /\ last.trace[2].res = "Ok" /\ last.trace[3].res = "Ok"
    /\ fs[FileAD] = FileEntry(<<"x">>)
    /\ fs[FileBD] = FileEntry(<<"y">>)

\* C14: in every run of run_restore with a terminal, the first selected item
\* is prompted for exactly when its original path exists; and for every prompt
\* answered with skip, or with the default, nothing is removed and restore_to
\* is not called for the item, the item is restorable afterwards with its
\* payload as it was, and what was at its original path is unchanged (as far
\* as no other item of the run touched that path).
C14_SkipLeavesEverything ==
    [][(last'.op = "run_restore" /\ last'.tty) =>
          LET t == last'.trace
          IN  /\ last'.selected # <<>> =>
                    LET first == last'.selected[1]
                    IN  Exists(fs, PathFrom(first.original_path)) <=>
                            /\ t # <<>>
                            /\ t[1].ev = "select" /\ t[1].id = first.id
              /\ \A k \in 1..Len(t) :
                    (t[k].ev = "select" /\ t[k].res \in {"pick1", "default"}) =>
                        LET dest == OrigOf(last', t[k].id)
                        IN  /\ \A j \in 1..Len(t) :
                                  t[j].id = t[k].id => t[j].ev \notin {"remove", "restore_to"}
                            /\ \E i \in Restorable(fs') : i.id = t[k].id
                            /\ SameAt(fs, fs', Join(files_dir, t[k].id))
                            /\ (\A j \in 1..Len(t) : ~Touches(t[j], dest)) =>
                                  SameAt(fs, fs', dest)]_vars

\* the prompter returned the default for the conflict at /a/d.t, where the
\* user's file with z is: it is still there and the item is still restorable
C14_Witness ==
    /\ last.op = "run_restore" /\ last.tty /\ last.res = "Ok"
    /\ Len(last.trace) = 1
    /\ last.trace[1].ev = "select" /\ last.trace[1].res = "default"
    /\ fs[FileAD] = FileEntry(<<"z">>)
    /\ \E i \in Restorable(fs) : i.id = last.trace[1].id

\* the prompt, file operation or handler call of the event failed
Failed(e) ==
    \/ e.ev = "select" /\ e.res = "err"
    \/ e.ev \in {"create_dir_all", "remove", "restore_to"} /\ e.res # "Ok"

\* C16 as stated: every run of run_restore that selected items handles each of
\* them (a prompt, a skip, a file operation or a restore_to is recorded for
\* it), whatever failed for the items before it, and returns Ok(all_ok) where
\* all_ok is false exactly when something failed for some item.
C16_RestoreBatchIsolation ==
    [][(last'.op = "run_restore" /\ last'.selected # <<>>) =>
          LET t == last'.trace
          IN  /\ \A i \in Range(last'.selected) : \E k \in 1..Len(t) : t[k].id = i.id
              /\ last'.res = "Ok"
              /\ last'.all_ok <=> \A k \in 1..Len(t) : ~Failed(t[k])]_vars

\* C17 as stated: a run of run_restore without a terminal, with at most one
\* pattern and with no failure: with force the selected items are the items
\* whose id or original path contains the pattern (all items when there is no
\* pattern); each of them whose original path is free, and not above or below
\* the original path of another, is at its original path afterwards; every
\* other item is in the trash as before.  Without force the file system is
\* unchanged and, when an item matches, the run fails with cannot-prompt.
C17_ScriptedSelection ==
    [][(last'.op = "run_restore" /\ ~last'.tty /\ Len(last'.targets) <= 1
            /\ faults' = faults) =>
          LET pattern == IF last'.targets = <<>> THEN None ELSE Some(last'.targets[1])
              matching == ManagedItems(fs, pattern)
              dest(i) == PathFrom(i.original_path)
              alone(i) == \A j \in matching \ {i} :
                              ~IsPrefix(dest(i), dest(j)) /\ ~IsPrefix(dest(j), dest(i))
          IN  IF last'.force
              THEN /\ matching # {} => last'.res = "Ok"
                   /\ Range(last'.selected) = matching
                   /\ \A i \in matching :
                         (~Exists(fs, dest(i)) /\ alone(i)) =>
                             Subtree(fs', dest(i)) = Subtree(fs, Join(files_dir, i.id))
                   /\ \A i \in Restorable(fs) \ matching :
                         /\ i \in Restorable(fs')
                         /\ SameAt(fs, fs', Join(files_dir, i.id))
              ELSE /\ fs' = fs
                   /\ matching # {} => last'.res = "CannotPrompt"]_vars

\* the filter run_restore hands to list_restorable for these arguments
FilterOf(targets) ==
    IF targets = <<>> \/ ~IsUtf8(targets[1]) THEN None ELSE Some(targets[1])

\* C18: in every run of run_restore, with or without terminal and force, with
\* at most one pattern and no failure of the listing, in which
\* list_restorable(filter) has no item: the run reports that there is nothing
\* to restore and succeeds, asks nothing, selects nothing, calls no restore_to,
\* and leaves the whole file system, the trash included, as it was.
C18_NothingToRestore ==
    [][(last'.op = "run_restore" /\ Len(last'.targets) <= 1 /\ faults' = faults
            /\ ManagedItems(fs, FilterOf(last'.targets)) = {}) =>
          /\ last'.res = "Nothing" /\ last'.all_ok
          /\ last'.trace = <<>> /\ last'.selected = <<>>
          /\ fs' = fs]_vars

\* nothing to restore for the pattern z without terminal and without force,
\* while the trash holds an item
C18_Witness ==
    /\ last.op = "run_restore" /\ last.res = "Nothing"
    /\ ~last.tty /\ ~last.force /\ last.targets = << <<"z">> >>
    /\ Restorable(fs) # {}

(***************************************************************************)
(* Properties of the rename choice.                                        *)
(***************************************************************************)
\* C15 as stated: when the first thing a run of run_restore does is to ask
\* about a conflict and the answer is rename, the item is handed to restore_to
\* with a path in the directory of its original path whose name is the first
\* of the candidates (.restored, .restored2, ...; generate_rename_path puts
\* them before the extension) at which nothing is; the path is not the
\* original path and no entry is at it; what is at the original path stays as
\* it is, and when restore_to returned Ok the path holds the payload.
C15_RenameLandsBesideOccupant ==
    [][(last'.op = "run_restore" /\ last'.trace # <<>>
            /\ last'.trace[1].ev = "select" /\ last'.trace[1].res = "pick2") =>
          LET t == last'.trace
              dest == OrigOf(last', t[1].id)
              to == t[1].path
              candidate(i) == Join(Parent(dest), RenameCandidate(FileName(dest), i))
          IN  /\ \E i \in 1..3 :
                    /\ to = candidate(i)
                    /\ \A j \in 1..(i - 1) : candidate(j) \in DOMAIN fs
              /\ to # dest
              /\ to \notin DOMAIN fs
              /\ Len(t) > 1
              /\ t[2].ev = "restore_to" /\ t[2].id = t[1].id /\ t[2].path = to
              /\ (\A j \in 3..Len(t) : ~Touches(t[j], dest)) => SameAt(fs, fs', dest)
              /\ (t[2].res = "Ok" /\ \A j \in 3..Len(t) : ~Touches(t[j], to)) =>
                    Subtree(fs', to) = Subtree(fs, Join(files_dir, t[1].id))]_vars

(***************************************************************************)
(* Properties of a Managed trash call and of the records it leaves.        *)
(***************************************************************************)
\* the stored names the step added to files/
NewPayloads(f, g) == DirNames(g, files_dir) \ DirNames(f, files_dir)

\* C21 as stated: when a trash(path) of a file or directory has moved the
\* entry into files/ and has left no info record for it, the call returns Ok
\* and the payload holds what the path held.
C21_InfoFailureNonFatal ==
    [][(/\ last'.op = "trash" /\ ~last'.link
        /\ \E n \in NewPayloads(fs, fs') : InfoName(n) \notin DirNames(fs', info_dir)) =>
          /\ last'.res = "Ok"
          /\ \A n \in NewPayloads(fs, fs') :
                Subtree(fs', Join(files_dir, n)) = last'.snap]_vars

\* C22 as stated: a trash(path) of a file or directory that returns Ok leaves
\* nothing at the path, a new payload in files/ holding what the path held,
\* the info record of that stored name whose Path is the canonical path as
\* text, and an item of list_restorable(None) with the stored name as id and
\* that canonical path as original path.
C22_TrashPostcondition ==
    [][(last'.op = "trash" /\ last'.res = "Ok" /\ ~last'.link) =>
          LET canonical == Display(Follow(fs, last'.path).p)
          IN  /\ ~Exists(fs', last'.path)
              /\ \E n \in NewPayloads(fs, fs') :
                    /\ Subtree(fs', Join(files_dir, n)) = last'.snap
                    /\ InfoName(n) \in DirNames(fs', info_dir)
                    /\ parse_trashinfo(fs'[Join(info_dir, InfoName(n))].d).ok
                    /\ parse_trashinfo(fs'[Join(info_dir, InfoName(n))].d).original_path
                          = canonical
                    /\ \E i \in Restorable(fs') :
                          i.id = n /\ i.original_path = canonical]_vars

\* the info files with a payload whose content is text with a Path line
ValidRecords(f) ==
    {m \in InfoCandidates(f) :
        /\ Readable(f, Join(info_dir, m))
        /\ \E k \in 1..Len(Lines(f[Join(info_dir, m)].d)) :
              StartsWith(Lines(f[Join(info_dir, m)].d)[k], <<"Path=">>)}

\* the record has a DeletionDate line with a date
Dated(f, m) ==
    \E k \in 1..Len(Lines(f[Join(info_dir, m)].d)) :
        LET line == Lines(f[Join(info_dir, m)].d)[k]
        IN  /\ StartsWith(line, <<"DeletionDate=">>)
            /\ IsDateText(StripPrefix(line, <<"DeletionDate=">>))

\* C23 as stated: whatever the info files hold, a list_restorable(None) in
\* which the environment makes no file operation fail returns Ok; it returns
\* one item for each info file with a payload whose content is text with a
\* Path line, and no other; and the item of a record without a DeletionDate
\* line that holds a date has no deleted_at.
C23_CorruptRecordSkipped ==
    [][(last'.op = "list" /\ faults' = faults) =>
          /\ last'.res = "Ok"
          /\ ItemIds(last'.items) = {FileStem(m) : m \in ValidRecords(fs)}
          /\ \A m \in ValidRecords(fs) : \A i \in last'.items :
                (i.id = FileStem(m) /\ ~Dated(fs, m)) => ~i.deleted_at.some]_vars

(***************************************************************************)
(* Properties of the records OsTrash::trash keeps on macOS.                *)
(***************************************************************************)
\* the runs of OsTrash::trash on path up to the second snapshot, the delete
\* having succeeded: the path, the time, both snapshots, the outcome of the
\* delete
TrackedRunsOf(f, path) ==
    UNION {UNION {{[path |-> path, now |-> now, before |-> before,
                    d |-> d, after |-> after] :
                      now \in {t \in OsTimes : FreshTime(f, t)},
                      after \in snapshot_trash(d.fs)} :
                  d \in {x \in trash_delete(f, path) : x.ok}} :
           before \in snapshot_trash(f)}

\* the runs on the paths that are no link
TrackedAfterDelete(f) ==
    UNION {TrackedRunsOf(f, path) : path \in {p \in OsTargets : ~IsSymlink(f, p)}}

NewEntries(r) == r.after.names \ r.before.names

RecordPath(r) == Join(OsTrash_info_dir, InfoName(uuid_v4(r.now)))

\* the record of the run is in g, whole
Persisted(f, g, r) ==
    /\ RecordPath(r) \in DOMAIN g
    /\ g[RecordPath(r)] =
          FileEntry(RestoreMetaText(CHOOSE n \in NewEntries(r) : TRUE,
                                    Follow(f, r.path).p, r.now))

\* g holds a record file that f has not
AnyRecord(f, g) ==
    DirNames(g, OsTrash_info_dir) # DirNames(f, OsTrash_info_dir)

\* the call that ends as o returns Ok(()), with the trash as the delete left it
SucceedsInTrash(f, r, o) ==
    /\ \E x \in OsTrash_trash(f, r.path, r.now) : x.fs = o.fs /\ x.res = "Ok"
    /\ \A x \in OsTrash_trash(f, r.path, r.now) : x.fs = o.fs => x.res = "Ok"
    /\ Under(o.fs, OsTrash_trash_dir) = Under(r.d.fs, OsTrash_trash_dir)
    /\ \A q \in Under(o.fs, OsTrash_trash_dir) : o.fs[q] = r.d.fs[q]

\* C24 as stated: after a successful platform delete the record is persisted
\* if and only if exactly one entry name is new between the two snapshots, no
\* record is written otherwise, the call succeeds and the trash keeps the item.
C24_RecordIffOneNewEntry ==
    backend = "macos" =>
        \A r \in TrackedAfterDelete(fs) :
            \A o \in TrackNewEntries(r.d.fs, NewEntries(r), Follow(fs, r.path).p, r.now) :
                /\ Persisted(fs, o.fs, r) <=> Cardinality(NewEntries(r)) = 1
                /\ Cardinality(NewEntries(r)) # 1 => ~AnyRecord(fs, o.fs)
                /\ SucceedsInTrash(fs, r, o)

\* C24: after a successful platform delete a record is written only when
\* exactly one entry name is new between the two snapshots, it is persisted
\* then unless creating the record directory or writing the record fails, and
\* in every case the call succeeds and the trash keeps the item.
C24_RecordOnlyForOneNewEntry ==
    backend = "macos" =>
        \A r \in TrackedAfterDelete(fs) :
            \A o \in TrackNewEntries(r.d.fs, NewEntries(r), Follow(fs, r.path).p, r.now) :
                /\ AnyRecord(fs, o.fs) => Cardinality(NewEntries(r)) = 1
                /\ Cardinality(NewEntries(r)) = 1 /\ ~o.inj => Persisted(fs, o.fs, r)
                /\ SucceedsInTrash(fs, r, o)

\* a file was trashed on macOS, and the next call can see no, one or two new
\* entries
C24_Witness ==
    /\ backend = "macos" /\ last.op = "trash" /\ last.res = "Ok" /\ ~last.link
    /\ \A k \in 0..2 :
          \E r \in TrackedAfterDelete(fs) : Cardinality(NewEntries(r)) = k

(***************************************************************************)
(* The delete flow and the cleanup (src/src/ops.rs run, process_target)    *)
(* over the handler that was selected.                                     *)
(***************************************************************************)
\* OsTrash::cleanup (macOS): the hint to empty the trash by hand, then Ok(())
OsTrash_cleanup_macos(f, answer) == {Cleaned("Hint", f, FALSE, 0)}

\* handler.cleanup(prompter) of the handler b
Handler_cleanup(b, f, answer) ==
    IF b = "managed" THEN ManagedTrash_cleanup(f, answer)
    ELSE OsTrash_cleanup_macos(f, answer)

\* handler.trash(target) of the handler b
Handler_trash(b, f, path, now) ==
    IF b = "managed" THEN ManagedTrash_trash(f, path, now)
    ELSE OsTrash_trash(f, path, now)

\* the results with which cleanup returns Ok(())
CleanupOk == {"Ok", "Nothing", "Cancelled", "Hint"}

\* run with cli.cleanup: handler.cleanup(prompter)?, then Ok(true)
run_cleanup(b, f, answer) ==
    {[res |-> IF o.res \in CleanupOk THEN "true" ELSE "Err",
      fs |-> o.fs, inj |-> o.inj, asked |-> o.asked,
      trace |-> <<Event("cleanup", <<>>, <<>>, o.res)>>] :
        o \in Handler_cleanup(b, f, answer)}

\* the time of a call: one that gives uuid_v4 an id no record has
ClockTimes == 6 .. 9
Clock(f) ==
    CHOOSE t \in ClockTimes :
        /\ InfoName(uuid_v4(t)) \notin DirNames(f, OsTrash_info_dir)
        /\ \A u \in ClockTimes :
              u < t => InfoName(uuid_v4(u)) \in DirNames(f, OsTrash_info_dir)

\* process_target returns: res is what it returns for the target
Processed(s, r, target, res, events) ==
    Run("", s.all_ok /\ res \in {"Skipped", "Declined", "Trashed"}, r.fs,
        s.n + (IF r.inj THEN 1 ELSE 0),
        s.trace \o events \o <<Event("target", <<>>, target, res)>>)

\* process_target from handler.trash on
TrashTarget(s, target, cli, b, events) ==
    {Processed(s, o, target, IF o.res = "Ok" THEN "Trashed" ELSE "TrashFailed",
               Append(events, Event("trash", <<>>, target, o.res))) :
        o \in Handler_trash(b, s.fs, target, Clock(s.fs))}

\* a confirmation that -f makes unnecessary: not what process_target does
ConfirmTargetUnlessForce(s, target, cli, is_tty, b) ==
    IF cli.force THEN TrashTarget(s, target, cli, b, <<>>)
    ELSE IF ~is_tty
    THEN {Processed(s, Done(s.fs), target, "NonInteractive", <<>>)}
    ELSE {Processed(s, Done(s.fs), target, "PromptError",
                    <<Event("confirm", <<>>, target, "err")>>),
          Processed(s, Done(s.fs), target, "Declined",
                    <<Event("confirm", <<>>, target, "no")>>)}
         \cup TrashTarget(s, target, cli, b, <<Event("confirm", <<>>, target, "yes")>>)

\* process_target from the non-interactive refusal on
ConfirmTarget(s, target, cli, is_tty, b) ==
    IF ~is_tty /\ ~cli.force
    THEN {Processed(s, Done(s.fs), target, "NonInteractive", <<>>)}
    ELSE IF is_tty
    THEN {Processed(s, Done(s.fs), target, "PromptError",
                    <<Event("confirm", <<>>, target, "err")>>),
          Processed(s, Done(s.fs), target, "Declined",
                    <<Event("confirm", <<>>, target, "no")>>)}
         \cup TrashTarget(s, target, cli, b, <<Event("confirm", <<>>, target, "yes")>>)
    ELSE TrashTarget(s, target, cli, b, <<>>)

\* a process_target that refuses without terminal and -f before it looks
\* whether the target is there: not process_target
process_target_refusing_first(s, target, cli, is_tty, b) ==
    IF ~is_tty /\ ~cli.force
    THEN {Processed(s, Done(s.fs), target, "NonInteractive", <<>>)}
    ELSE IF ~Exists(s.fs, target) /\ ~IsSymlink(s.fs, target)
    THEN {Processed(s, Done(s.fs), target,
                    IF cli.force THEN "Skipped" ELSE "NotFound", <<>>)}
    ELSE ConfirmTarget(s, target, cli, is_tty, b)

\* a process_target whose directory check follows links: not process_target
process_target_following(s, target, cli, is_tty, b) ==
    IF ~Exists(s.fs, target) /\ ~IsSymlink(s.fs, target)
    THEN {Processed(s, Done(s.fs), target,
                    IF cli.force THEN "Skipped" ELSE "NotFound", <<>>)}
    ELSE IF IsDir(s.fs, target) /\ ~cli.recursive
    THEN IF ~cli.dir \/ Children(s.fs, Follow(s.fs, target).p) # {}
         THEN {Processed(s, Done(s.fs), target, "IsDir", <<>>)}
         ELSE ConfirmTarget(s, target, cli, is_tty, b)
    ELSE ConfirmTarget(s, target, cli, is_tty, b)

\* process_target
process_target(s, target, cli, is_tty, b) ==
    IF ~Exists(s.fs, target) /\ ~IsSymlink(s.fs, target)
    THEN {Processed(s, Done(s.fs), target,
                    IF cli.force THEN "Skipped" ELSE "NotFound", <<>>)}
    ELSE IF IsDir(s.fs, target) /\ ~IsSymlink(s.fs, target)
    THEN IF ~cli.recursive /\ ~cli.dir
         THEN {Processed(s, Done(s.fs), target, "IsDir", <<>>)}
         ELSE IF cli.dir /\ ~cli.recursive
         THEN {Processed(s, Fault(s.fs), target, "IoError",
                         <<Event("read_dir", <<>>, target, "Err")>>)}
              \cup (IF Children(s.fs, Follow(s.fs, target).p) # {}
                    THEN {Processed(s, Done(s.fs), target, "IsDir",
                                    <<Event("read_dir", <<>>, target, "Ok")>>)}
                    ELSE ConfirmTarget(s, target, cli, is_tty, b))
         ELSE ConfirmTarget(s, target, cli, is_tty, b)
    ELSE ConfirmTarget(s, target, cli, is_tty, b)

RECURSIVE TargetLoopStopping(_, _, _, _, _, _)
\* a loop over cli.targets that ends with the first target that fails: not
\* the loop of run
TargetLoopStopping(S, targets, cli, is_tty, b, budget) ==
    IF targets = <<>> THEN S
    ELSE TargetLoopStopping(
           UNION {IF ~s.all_ok THEN {s}
                  ELSE {r \in process_target(s, Head(targets), cli, is_tty, b) :
                           r.n <= budget} : s \in S},
           Tail(targets), cli, is_tty, b, budget)

RECURSIVE TargetLoop(_, _, _, _, _, _)
\* the loop of run over cli.targets; budget is the number of file operations
\* the environment may still make fail
TargetLoop(S, targets, cli, is_tty, b, budget) ==
    IF targets = <<>> THEN S
    ELSE TargetLoop(
           UNION {{r \in process_target(s, Head(targets), cli, is_tty, b) :
                      r.n <= budget} : s \in S},
           Tail(targets), cli, is_tty, b, budget)

\* run without cli.cleanup and cli.restore: Ok(all_ok)
run(f, cli, is_tty, b, budget) ==
    {[res |-> IF r.all_ok THEN "true" ELSE "false", all_ok |-> r.all_ok,
      fs |-> r.fs, n |-> r.n, trace |-> r.trace] :
        r \in TargetLoop({Run("", TRUE, f, 0, <<>>)}, cli.targets, cli, is_tty, b,
                         budget)}

DirE == << <<"e">> >>

\* the user's files of FixtureOs and the empty directory /e
FixtureRun(target) == Put(FixtureOs(target), DirE, DirEntry)

DeleteTargets == {FileAD, DirA, DirE, LinkBL, NoSuchFile}

\* the command lines: one target or two different ones, with and without
\* -f, -r, -d
CommandLines ==
    {[targets |-> t, force |-> f, recursive |-> r, dir |-> d] :
        t \in {<<p>> : p \in DeleteTargets}
              \cup {u \in {<<p, q>> : p \in DeleteTargets,
                                       q \in DeleteTargets \cup {FileBD}} :
                        u[1] # u[2]},
        f \in BOOLEAN, r \in BOOLEAN, d \in BOOLEAN}

\* what the link /b/l points to: a directory, nothing
RunLinkTargets == {DirA, NoSuchFile}

InitRun ==
    /\ fs \in {FixtureRun(target) : target \in RunLinkTargets}
    /\ backend \in {"managed", "macos"}
    /\ faults = 0
    /\ onlyTrash = TRUE
    /\ procs = <<>>
    /\ last = Idle

\* the entries the handler holds
Trashed(b, f) ==
    IF b = "managed" THEN Children(f, files_dir) ELSE Children(f, OsTrash_trash_dir)

RunDelete(cli, is_tty) ==
    /\ Cardinality(Trashed(backend, fs)) + Len(cli.targets) <= MaxPayloads
    /\ \E o \in run(fs, cli, is_tty, backend, MaxFaults - faults) :
        /\ fs' = o.fs
        /\ faults' = faults + o.n
        /\ last' = [Idle EXCEPT
                !.op = "run", !.res = o.res, !.all_ok = o.all_ok,
                !.tty = is_tty, !.force = cli.force, !.targets = cli.targets,
                !.recursive = cli.recursive, !.dir = cli.dir, !.trace = o.trace]
    /\ onlyTrash' = FALSE
    /\ UNCHANGED <<backend, procs>>

RunCleanup(answer) ==
    /\ \E o \in run_cleanup(backend, fs, answer) :
        /\ Allowed(o) /\ Counted(o)
        /\ fs' = o.fs
        /\ last' = [Idle EXCEPT
                !.op = "run_cleanup", !.res = o.res, !.asked = o.asked,
                !.trace = o.trace]
    /\ onlyTrash' = FALSE
    /\ UNCHANGED <<backend, procs>>

Ran == last.op \in {"run", "run_cleanup"}

\* /b/d.t may be in the trash when saferm is run, and saferm is run once
NextRun ==
    \/ ~Ran /\ \E now \in Times : ManagedTrash(FileBD, now)
    \/ ~Ran /\ \E now \in OsTimes : OsTrash(FileBD, now)
    \/ ~Ran /\ \E cli \in CommandLines, is_tty \in BOOLEAN : RunDelete(cli, is_tty)
    \/ ~Ran /\ \E answer \in Answers : RunCleanup(answer)

SpecRun == InitRun /\ [][NextRun]_vars

(***************************************************************************)
(* Properties of the cleanup of the platform handler.                      *)
(***************************************************************************)
\* what run returns after a cleanup that removed the entries
SuccessfulCleanup == "true"

\* C25: a cleanup run on the platform without a purge API asks nothing,
\* leaves every trash entry and every record, gives the hint to empty the
\* trash by hand, prints no success message, and does not return what a
\* successful cleanup returns.
C25_PlatformCleanupNeverSucceeds ==
    [][(last'.op = "run_cleanup" /\ backend = "macos") =>
          /\ last'.asked = 0
          /\ fs' = fs
          /\ last'.trace = <<Event("cleanup", <<>>, <<>>, "Hint")>>
          /\ last'.res # SuccessfulCleanup]_vars

(***************************************************************************)
(* The choice of the handler (src/src/trash/mod.rs create_handler).        *)
(***************************************************************************)
\* std::env::var: the value of a variable that is set, unless it is not
\* Unicode
env_var(e) == IF e.some /\ IsUtf8(e.v) THEN Some(e.v) ELSE None

\* should_use_os_trash on the platform the binary was built for
should_use_os_trash(platform, xdg, session) ==
    IF platform = "macos" THEN TRUE
    ELSE IF platform = "linux" THEN env_var(xdg).some \/ env_var(session).some
    ELSE FALSE

\* default_handler
default_handler(platform, xdg, session) ==
    IF should_use_os_trash(platform, xdg, session) THEN "os" ELSE "managed"

\* create_handler: the handler, and whether the unknown value was reported
create_handler(platform, override, xdg, session) ==
    LET backend_var == env_var(override)
    IN  IF backend_var.some
        THEN IF backend_var.v = <<"os">> THEN [handler |-> "os", reported |-> FALSE]
             ELSE IF backend_var.v = <<"managed">>
             THEN [handler |-> "managed", reported |-> FALSE]
             ELSE [handler |-> default_handler(platform, xdg, session),
                   reported |-> TRUE]
        ELSE [handler |-> default_handler(platform, xdg, session),
              reported |-> FALSE]

Platforms == {"macos", "linux", "windows"}

\* SAFERM_TRASH_BACKEND: unset, the two values, others, empty, not Unicode
Overrides ==
    {None} \cup {Some(v) : v \in {<<"os">>, <<"managed">>, <<"OS">>, <<"x">>,
                                   <<>>, <<BAD>>}}

\* XDG_CURRENT_DESKTOP, DESKTOP_SESSION: unset, a name, empty, not Unicode
DesktopValues == {None} \cup {Some(v) : v \in {<<"G">>, <<>>, <<BAD>>}}

InitSelect ==
    /\ fs = Fixture
    /\ backend = "none"
    /\ faults = 0
    /\ onlyTrash = TRUE
    /\ procs = <<>>
    /\ last = Idle

CreateHandler(platform, override, xdg, session) ==
    /\ backend = "none"
    /\ LET h == create_handler(platform, override, xdg, session)
       IN  /\ backend' = h.handler
           /\ last' = [Idle EXCEPT
                   !.op = "create_handler",
                   !.res = IF h.reported THEN "reported" ELSE "",
                   !.env = [platform |-> platform, override |-> override,
                            xdg |-> xdg, session |-> session]]
    /\ UNCHANGED <<fs, faults, onlyTrash, procs>>

NextSelect ==
    \E platform \in Platforms, override \in Overrides,
       xdg \in DesktopValues, session \in DesktopValues :
        CreateHandler(platform, override, xdg, session)

SpecSelect == InitSelect /\ [][NextSelect]_vars

\* C26: "managed" selects the Managed handler and "os" the Platform handler
\* whatever the platform; any other value of the override is reported and
\* gives the handler chosen without override; without override the Platform
\* handler is chosen on macOS, on Linux exactly when a desktop session
\* variable is set, and the Managed handler in every other case.
C26_BackendSelection ==
    last.op = "create_handler" =>
        LET e == last.env
            desktop == e.xdg.some \/ e.session.some
            heuristic == IF \/ e.platform = "macos"
                            \/ e.platform = "linux" /\ desktop
                         THEN "os" ELSE "managed"
        IN  /\ e.override = Some(<<"managed">>) => backend = "managed"
            /\ e.override = Some(<<"os">>) => backend = "os"
            /\ (e.override.some /\ e.override.v \notin {<<"os">>, <<"managed">>}) =>
                  last.res = "reported" /\ backend = heuristic
            /\ ~e.override.some => last.res = "" /\ backend = heuristic
            /\ backend \in {"os", "managed"}

(***************************************************************************)
(* Properties of the delete flow.                                          *)
(***************************************************************************)
\* what process_target returned for the targets, in the order of the run
TargetResults(step) == SelectSeq(step.trace, LAMBDA e : e.ev = "target")

\* the results with which process_target returns Ok(())
TargetOk == {"Skipped", "Declined", "Trashed"}

\* what was done for the target at path: the reading of the directory, the
\* prompt, the call of handler.trash
EventsFor(step, path, ev) ==
    {k \in DOMAIN step.trace : step.trace[k].ev = ev /\ step.trace[k].path = path}

\* an earlier target of the run produced an error, and none held the i-th
EarlierError(step, i) ==
    /\ \E j \in 1..(i - 1) : TargetResults(step)[j].res \notin TargetOk
    /\ \A j \in 1..(i - 1) : ~IsPrefix(step.targets[j], step.targets[i])

\* C27: run processes the targets in the given order, every one of them
\* whatever errors the earlier ones produced; a file that comes after a
\* failed target is still handed to handler.trash and is gone when that
\* succeeds; and run returns true exactly when no target produced an error.
C27_DeleteBatchIsolation ==
    [][last'.op = "run" =>
          LET step == last'
              results == TargetResults(step)
          IN  /\ Len(results) = Len(step.targets)
              /\ \A i \in DOMAIN results : results[i].path = step.targets[i]
              /\ \A i \in DOMAIN results :
                    (/\ EarlierError(step, i)
                     /\ Exists(fs, step.targets[i])
                     /\ ~IsDir(fs, step.targets[i])
                     /\ ~IsSymlink(fs, step.targets[i])
                     /\ ~step.tty /\ step.force) =>
                        /\ EventsFor(step, step.targets[i], "trash") # {}
                        /\ results[i].res = "Trashed" => ~Exists(fs', step.targets[i])
              /\ (step.res = "true") <=> \A i \in DOMAIN results : results[i].res \in TargetOk
              /\ step.res \in {"true", "false"}]_vars

\* a run of two targets: the first was refused as a directory, the second
\* was trashed, and run returned false
C27_Witness ==
    /\ last.op = "run" /\ Len(last.targets) = 2 /\ last.res = "false"
    /\ Len(TargetResults(last)) = 2
    /\ TargetResults(last)[1].res = "IsDir"
    /\ TargetResults(last)[2].res = "Trashed"
    /\ ~Exists(fs, last.targets[2])

\* the target is there: it exists or is a link, dangling or not
Present(f, path) == Exists(f, path) \/ IsSymlink(f, path)

\* the directory policy lets the target through
PassesPolicy(f, step, path) ==
    \/ ~(IsDir(f, path) /\ ~IsSymlink(f, path))
    \/ step.recursive
    \/ step.dir /\ Children(f, Follow(f, path).p) = {}

\* handler.trash was not called for a target before the i-th: the i-th is
\* processed in the state in which run was called
Untouched(step, i) ==
    \A j \in 1..(i - 1) : EventsFor(step, step.targets[j], "trash") = {}

\* no other target of the run holds the i-th or is held by it
Apart(step, i) ==
    \A j \in DOMAIN step.targets :
        j # i => /\ ~IsPrefix(step.targets[j], step.targets[i])
                 /\ ~IsPrefix(step.targets[i], step.targets[j])

\* what is at the path, the path not followed, is what was there
InPlace(f, g, path) ==
    /\ Phys(g, path) = Phys(f, path)
    /\ Subtree(g, Phys(g, path).p) = Subtree(f, Phys(f, path).p)

\* C28: handler.trash is called for a target only right after the prompter
\* confirmed it on a terminal, with or without -f, or without a terminal
\* and with -f, unprompted; a target that is there and passes the directory
\* policy is refused with an error without terminal and without -f and stays
\* in place; a declined target stays in place and is no error.
C28_ConfirmationGating ==
    [][last'.op = "run" =>
          LET step == last'
              tr == step.trace
              results == TargetResults(step)
          IN  /\ \A k \in DOMAIN tr :
                    tr[k].ev = "trash" =>
                        \/ /\ step.tty
                           /\ k > 1
                           /\ tr[k - 1] = Event("confirm", <<>>, tr[k].path, "yes")
                        \/ /\ ~step.tty /\ step.force
                           /\ EventsFor(step, tr[k].path, "confirm") = {}
              /\ \A i \in DOMAIN results :
                    (/\ step.tty /\ Untouched(step, i)
                     /\ Present(fs, step.targets[i])
                     /\ PassesPolicy(fs, step, step.targets[i])
                     /\ results[i].res # "IoError") =>
                        EventsFor(step, step.targets[i], "confirm") # {}
              /\ (~step.tty /\ ~step.force) =>
                    /\ fs' = fs
                    /\ \A i \in DOMAIN results :
                          (/\ Present(fs, step.targets[i])
                           /\ PassesPolicy(fs, step, step.targets[i])
                           /\ results[i].res # "IoError") =>
                              results[i].res = "NonInteractive" /\ step.res = "false"
              /\ \A i \in DOMAIN results :
                    results[i].res = "Declined" =>
                        /\ EventsFor(step, step.targets[i], "trash") = {}
                        /\ Apart(step, i) => InPlace(fs, fs', step.targets[i])
              /\ (\A i \in DOMAIN results : results[i].res = "Declined") =>
                    step.res = "true" /\ fs' = fs]_vars

\* on a terminal and with -f, the file /a/d.t was declined and stays, and the
\* directory /e was confirmed and is in the trash
C28_Witness ==
    /\ last.op = "run" /\ last.tty /\ last.force
    /\ last.targets = <<FileAD, DirE>>
    /\ TargetResults(last)[1].res = "Declined"
    /\ TargetResults(last)[2].res = "Trashed"
    /\ Exists(fs, FileAD) /\ ~Exists(fs, DirE)

\* Path::is_dir and not Path::is_symlink
RealDir(f, path) == IsDir(f, path) /\ ~IsSymlink(f, path)

\* no other target of the run holds the place or is held by it
ApartFrom(step, i, place) ==
    \A j \in DOMAIN step.targets :
        j # i => /\ ~IsPrefix(step.targets[j], place)
                 /\ ~IsPrefix(place, step.targets[j])

\* C29 as stated: a real directory is refused with the is-a-directory error
\* and not trashed unless -r is set, or -d is set and it is empty; a link to
\* a directory is not refused as a directory without -r, and the directory
\* it points to remains.
C29_DirectoryPolicy ==
    [][last'.op = "run" =>
          LET step == last'
              results == TargetResults(step)
          IN  \A i \in {j \in DOMAIN results : Untouched(step, j)} :
                LET target == step.targets[i]
                IN  /\ (RealDir(fs, target) /\ ~PassesPolicy(fs, step, target)) =>
                          /\ results[i].res = "IsDir"
                          /\ EventsFor(step, target, "trash") = {}
                          /\ Apart(step, i) => InPlace(fs, fs', target)
                    /\ (RealDir(fs, target) /\ PassesPolicy(fs, step, target)) =>
                          results[i].res # "IsDir"
                    /\ (IsSymlink(fs, target) /\ IsDir(fs, target)) =>
                          /\ results[i].res \notin
                                {"IsDir", "IoError", "NotFound", "Skipped"}
                          /\ ApartFrom(step, i, Follow(fs, target).p) =>
                                InPlace(fs, fs', Follow(fs, target).p)]_vars

\* C29: a real directory is not trashed unless -r is set, or -d is set and it
\* is empty: it is refused with the is-a-directory error, or, with -d and
\* without -r, with the error of reading the directory when that fails; a
\* link to a directory is not refused as a directory without -r, and the
\* directory it points to remains.
C29_DirectoryPolicyOrReadError ==
    [][last'.op = "run" =>
          LET step == last'
              results == TargetResults(step)
          IN  \A i \in {j \in DOMAIN results : Untouched(step, j)} :
                LET target == step.targets[i]
                IN  /\ (RealDir(fs, target) /\ ~PassesPolicy(fs, step, target)) =>
                          /\ \/ results[i].res = "IsDir"
                             \/ /\ results[i].res = "IoError"
                                /\ step.dir /\ ~step.recursive
                                /\ \E k \in EventsFor(step, target, "read_dir") :
                                      step.trace[k].res = "Err"
                          /\ EventsFor(step, target, "trash") = {}
                          /\ Apart(step, i) => InPlace(fs, fs', target)
                    /\ (RealDir(fs, target) /\ PassesPolicy(fs, step, target)) =>
                          results[i].res # "IsDir"
                    /\ (IsSymlink(fs, target) /\ IsDir(fs, target)) =>
                          /\ results[i].res \notin
                                {"IsDir", "IoError", "NotFound", "Skipped"}
                          /\ ApartFrom(step, i, Follow(fs, target).p) =>
                                InPlace(fs, fs', Follow(fs, target).p)]_vars

\* without -r and -d, on a terminal: the directory /a was refused as a
\* directory and is in place, and the link /b/l to it was let through to the
\* prompt
C29_Witness ==
    /\ last.op = "run" /\ ~last.recursive /\ ~last.dir /\ last.tty
    /\ last.targets = <<DirA, LinkBL>>
    /\ TargetResults(last)[1].res = "IsDir"
    /\ TargetResults(last)[2].res = "Declined"
    /\ IsSymlink(fs, LinkBL) /\ IsDir(fs, LinkBL) /\ Exists(fs, FileAD)

\* C30: a target that neither exists nor is a link is never handed to
\* handler.trash, nor read as a directory, nor prompted for: with -f it is
\* accepted in silence and does not make run return false, without -f it
\* gives the not-found error and run returns false, whatever the other flags
\* and with or without a terminal; a target that is there, a dangling link
\* included, is not taken for a missing one.
C30_NonexistentTarget ==
    [][last'.op = "run" =>
          LET step == last'
              results == TargetResults(step)
          IN  /\ \A i \in {j \in DOMAIN results : Untouched(step, j)} :
                    IF Present(fs, step.targets[i])
                    THEN results[i].res \notin {"NotFound", "Skipped"}
                    ELSE /\ results[i].res = IF step.force THEN "Skipped" ELSE "NotFound"
                         /\ ~step.force => step.res = "false"
                         /\ (step.force /\ Len(results) = 1) => step.res = "true"
              /\ \A i \in DOMAIN results :
                    results[i].res \in {"NotFound", "Skipped"} =>
                        /\ \A ev \in {"trash", "confirm", "read_dir"} :
                              EventsFor(step, step.targets[i], ev) = {}
                        /\ (results[i].res = "Skipped") <=> step.force
                        /\ Len(results) = 1 => fs' = fs]_vars

\* on a terminal and without -f: /a/z, which does not exist, gave the
\* not-found error without a prompt, /b/d.t was trashed, run returned false
C30_Witness ==
    /\ last.op = "run" /\ last.tty /\ ~last.force
    /\ last.targets = <<NoSuchFile, FileBD>>
    /\ TargetResults(last)[1].res = "NotFound"
    /\ EventsFor(last, NoSuchFile, "confirm") = {}
    /\ TargetResults(last)[2].res = "Trashed"
    /\ last.res = "false" /\ ~Exists(fs, FileBD)

(***************************************************************************)
(* Properties of the failures of the Managed handler.                      *)
(***************************************************************************)
\* C31: a trash(path) of a file or directory that fails before or in the
\* rename into files/ (the directories cannot be made, the path cannot be
\* resolved, the rename fails) returns an error, leaves what the path held
\* at the path, and adds no payload and no info record.
C31_FailedMoveChangesNothing ==
    [][(/\ last'.op = "trash" /\ ~last'.link
        /\ last'.res \in {"IoError", "NotFound", "MoveFailed"}) =>
          /\ Exists(fs, last'.path) =>
                /\ Follow(fs', last'.path) = Follow(fs, last'.path)
                /\ Exists(fs', last'.path)
                /\ Subtree(fs', Follow(fs', last'.path).p) = last'.snap
          /\ DirNames(fs', files_dir) = DirNames(fs, files_dir)
          /\ DirNames(fs', info_dir) = DirNames(fs, info_dir)]_vars

\* the rename of /a into files/ failed and /a/d.t is where it was
C31_Witness ==
    /\ last.op = "trash" /\ last.res = "MoveFailed" /\ last.path = DirA
    /\ Exists(fs, FileAD)
    /\ InfoName(<<"a">>) \notin DirNames(fs, info_dir)

\* C32: a confirmed Managed cleanup that leaves a payload or an info record
\* behind returns an error, not Ok; it creates and changes nothing, so that
\* what it removed stays removed; and every item list_restorable returns
\* afterwards has its payload.
C32_PartialCleanupSurfaces ==
    [][(/\ last'.op = "cleanup" /\ last'.asked = 1
        /\ last'.res \notin {"Cancelled", "PromptError"}) =>
          /\ (Children(fs', files_dir) \cup Children(fs', info_dir) # {}) =>
                last'.res = "IoError"
          /\ last'.res \in {"Ok", "IoError"}
          /\ \A q \in DOMAIN fs' : q \in DOMAIN fs /\ fs'[q] = fs[q]
          /\ \A i \in ManagedItems(fs', NoFilter) :
                Join(files_dir, i.id) \in DOMAIN fs']_vars

\* a confirmed cleanup failed after the payloads were removed: a record is
\* left, nothing is listed
C32_Witness ==
    /\ last.op = "cleanup" /\ last.asked = 1 /\ last.res = "IoError"
    /\ Children(fs, files_dir) = {}
    /\ Children(fs, info_dir) # {}
    /\ ManagedItems(fs, NoFilter) = {}

(***************************************************************************)
(* unique_name on payload stores of every shape.                           *)
(***************************************************************************)
\* the names probed: with an extension, without, hidden, with an empty
\* extension
ProbedNames == {<<"d", DOT, "t">>, <<"a">>, <<DOT, "h">>, <<"a", DOT>>}

\* the names that can be in files/: the probed names and their first two
\* candidates
StoreNames ==
    ProbedNames \cup {Candidate(n, i) : n \in ProbedNames, i \in 1..2}

\* files/ holding the payloads named in S, info/ empty
StoreOf(S) ==
    [q \in {base_dir, files_dir, info_dir} \cup {Join(files_dir, n) : n \in S} |->
        IF q \in {base_dir, files_dir, info_dir} THEN DirEntry ELSE FileEntry(<<>>)]

InitProbe ==
    /\ fs \in {StoreOf(S) : S \in {X \in SUBSET StoreNames :
                                      Cardinality(X) <= MaxPayloads + 1}}
    /\ backend = "managed"
    /\ faults = 0
    /\ onlyTrash = TRUE
    /\ procs = <<>>
    /\ last = Idle

\* unique_name(original_name) is called
UniqueName(original_name) ==
    /\ last' = [Idle EXCEPT
            !.op = "unique_name", !.path = <<original_name>>,
            !.id = unique_name(fs, original_name)]
    /\ UNCHANGED <<fs, backend, faults, onlyTrash, procs>>

NextProbe == \E original_name \in ProbedNames : UniqueName(original_name)

SpecProbe == InitProbe /\ [][NextProbe]_vars

\* name.k.ext, or name.k when the name has no extension
Numbered(name, k) ==
    IF HasExtension(name)
    THEN FileStem(name) \o <<DOT>> \o Decimal(k) \o <<DOT>> \o Extension(name)
    ELSE name \o <<DOT>> \o Decimal(k)

\* C33: unique_name returns the original name when no payload has it, and
\* else stem.k.ext, or stem.k without extension, for the least k >= 1 that no
\* payload has; what it returns is never the name of a payload.
C33_UniqueNameProbing ==
    last.op = "unique_name" =>
        LET name == last.path[1]
            taken == DirNames(fs, files_dir)
        IN  /\ name \notin taken => last.id = name
            /\ name \in taken =>
                  \E k \in 1..(Cardinality(taken) + 1) :
                      /\ last.id = Numbered(name, k)
                      /\ \A j \in 1..(k - 1) : Numbered(name, j) \in taken
            /\ last.id \notin taken

\* d.t and d.2.t are payloads, d.1.t is not: d.1.t is returned
C33_Witness ==
    /\ last.op = "unique_name" /\ last.path[1] = <<"d", DOT, "t">>
    /\ <<"d", DOT, "t">> \in DirNames(fs, files_dir)
    /\ <<"d", DOT, "2", DOT, "t">> \in DirNames(fs, files_dir)
    /\ last.id = <<"d", DOT, "1", DOT, "t">>

(***************************************************************************)
(* The parent directory of a restored item: /a/d.t and /a go to the trash, *)
(* the user puts something of his own at /a, then saferm --restore runs    *)
(* once.                                                                   *)
(***************************************************************************)
ParentTrashTargets == {FileAD, DirA}

\* nothing is trashed or put after run_restore has been called
NextParent ==
    \/ /\ last.op # "run_restore"
       /\ \E p \in ParentTrashTargets, now \in Times : ManagedTrash(p, now)
    \/ /\ last.op # "run_restore"
       /\ \E occupant \in RestoreOccupants : Reoccupy(DirA, occupant)
    \/ /\ last.op # "run_restore"
       /\ \E mode \in RestoreModes : RunRestore(mode[1], mode[2], <<>>)

SpecParent == Init /\ [][NextParent]_vars

StaleStores ==
    {x.fs : x \in {r \in UNION {ManagedTrash_restore_to(o.fs, OriginalName(FileAD), FileAD) :
                                  o \in {t \in ManagedTrash_trash(Fixture, FileAD, 7) :
                                            t.res = "Ok" /\ ~t.inj}} :
                      r.res = "Ok" /\ r.inj}}

InitStale ==
    /\ fs \in StaleStores
    /\ backend = "managed"
    /\ faults = 0
    /\ onlyTrash = FALSE
    /\ procs = <<>>
    /\ last = Idle

SpecStale == InitStale /\ [][Next]_vars

\* C35: after every call (trash, list_restorable, restore_to, cleanup; failed
\* file operations included), an item that list_restorable returns for a
\* payload the call has just stored has as original_path the canonical path
\* that was trashed by this call, and an item returned for a payload that was
\* there before was returned before the call, with the same original_path.
C35_RecordMatchesPayload ==
    [][\A i \in ManagedItems(fs', NoFilter) :
          IF i.id \in NewPayloads(fs, fs')
          THEN /\ last'.op = "trash"
               /\ Exists(fs, last'.path)
               /\ PathFrom(i.original_path) = Follow(fs, last'.path).p
          ELSE i \in ManagedItems(fs, NoFilter)]_vars

(***************************************************************************)
(* Properties of the overwrite choice and of restore_to on an occupied     *)
(* destination.                                                            *)
(***************************************************************************)
\* C36: in a run of run_restore with a terminal that handles one item and in
\* which the user picks overwrite for it, when the run has returned either
\* restore_to has succeeded and the destination exists, or what was at the
\* destination before the run is still there, unchanged.
C36_NoLossOnOverwrite ==
    [][(/\ last'.op = "run_restore" /\ last'.tty
        /\ Len(last'.selected) = 1
        /\ \E k \in 1..Len(last'.trace) :
              /\ last'.trace[k].ev = "select"
              /\ last'.trace[k].res # "err"
              /\ SelectedIndex(last'.trace[k].res, ConflictDefault) = 0) =>
          LET dest == PathFrom(last'.selected[1].original_path)
          IN  \/ /\ \E k \in 1..Len(last'.trace) :
                       /\ last'.trace[k].ev = "restore_to"
                       /\ last'.trace[k].res = "Ok"
                       /\ last'.trace[k].path = dest
                 /\ Exists(fs', dest) \/ IsSymlink(fs', dest)
              \/ /\ Phys(fs', dest) = Phys(fs, dest)
                 /\ Phys(fs', dest).p \in DOMAIN fs'
                 /\ Subtree(fs', Phys(fs', dest).p) = Subtree(fs, Phys(fs, dest).p)]_vars

\* C37: a restore_to(id, destination) on the Managed handler that finds an
\* entry at the destination (a file, a directory or a symbolic link, lstat)
\* does not return Ok and leaves the entry at the destination, the payload
\* files/<id> and the record info/<id>.trashinfo as they were.
C37_NoSilentOverwrite ==
    [][(/\ last'.op = "restore_to" /\ backend = "managed"
        /\ Phys(fs, last'.dest).ok
        /\ Phys(fs, last'.dest).p \in DOMAIN fs) =>
          /\ last'.res # "Ok"
          /\ Phys(fs', last'.dest) = Phys(fs, last'.dest)
          /\ Phys(fs', last'.dest).p \in DOMAIN fs'
          /\ Subtree(fs', Phys(fs', last'.dest).p) = Subtree(fs, Phys(fs, last'.dest).p)
          /\ Subtree(fs', Join(files_dir, last'.id)) = Subtree(fs, Join(files_dir, last'.id))
          /\ Subtree(fs', Join(info_dir, InfoName(last'.id)))
                = Subtree(fs, Join(info_dir, InfoName(last'.id)))]_vars

\* C38: after every restore_to on the handler with the native restore, for an
\* item that was in the trash, whatever it returns: the tree of the item is in
\* the trash, at the original path or at the destination; and when the
\* occupant of the original path was evicted, its tree is at the original path
\* or at the eviction name.
C38_EvictionLosesNothing ==
    [][(/\ last'.op = "restore_to" /\ backend = "unix"
        /\ last'.path # <<>>) =>
          LET payload == Join(NativeFiles, last'.id)
          IN  /\ \E place \in {payload, last'.path, last'.dest} :
                    /\ place \in DOMAIN fs'
                    /\ Subtree(fs', place) = Subtree(fs, payload)
              /\ last'.tmp # <<>> =>
                    \E place \in {last'.path, last'.tmp} :
                        /\ place \in DOMAIN fs'
                        /\ Subtree(fs', place) = last'.snap]_vars

(***************************************************************************)
(* OsTrash::trash on macOS, snapshot by snapshot, beside other processes   *)
(* that use the same trash (the Finder, another saferm).                   *)
(***************************************************************************)
TrackTargets == {FileAD, FileBD}

\* the name another process gives the entry it moves into the trash
OtherNames == {<<"o">>}

InitTrack ==
    /\ fs = FixtureOs(FileAD)
    /\ backend = "macos"
    /\ faults = 0
    /\ onlyTrash = TRUE
    /\ procs = <<>>
    /\ last = Idle

\* the call up to `let before = Self::snapshot_trash()`
TrackBefore(path, now) ==
    /\ procs = <<>>
    /\ Exists(fs, path) /\ ~IsSymlink(fs, path)
    /\ Cardinality(Children(fs, OsTrash_trash_dir)) < MaxPayloads
    /\ FreshTime(fs, now)
    /\ \E before \in snapshot_trash(fs) :
        /\ Allowed(before) /\ Counted(before)
        /\ procs' = <<[pc |-> "delete", path |-> path, now |-> now,
                       original_path |-> Follow(fs, path).p,
                       before |-> before.names, created |-> {}]>>
    /\ last' = [Idle EXCEPT !.op = "snapshot", !.path = path]
    /\ UNCHANGED <<fs, backend, onlyTrash>>

\* trash::delete(path)?; created is the entry the delete made in the trash
TrackDelete ==
    /\ procs # <<>> /\ procs[1].pc = "delete"
    /\ \E d \in trash_delete(fs, procs[1].path) :
        /\ Allowed(d) /\ Counted(d)
        /\ fs' = d.fs
        /\ IF d.ok
           THEN /\ procs' = <<[procs[1] EXCEPT
                                !.pc = "after",
                                !.created = DirNames(d.fs, OsTrash_trash_dir)
                                               \ DirNames(fs, OsTrash_trash_dir)]>>
                /\ last' = [Idle EXCEPT !.op = "delete", !.path = procs[1].path]
           ELSE /\ procs' = <<>>
                /\ last' = [Idle EXCEPT !.op = "trash", !.path = procs[1].path,
                                        !.res = "BackendFailed"]
    /\ UNCHANGED <<backend, onlyTrash>>

\* the second snapshot and the record; newids is the entry the delete of this
\* call made, dest the canonical path
TrackAfter ==
    /\ procs # <<>> /\ procs[1].pc = "after"
    /\ \E after \in snapshot_trash(fs) :
         \E w \in TrackNewEntries(fs, after.names \ procs[1].before,
                                  procs[1].original_path, procs[1].now) :
            /\ (after.inj \/ w.inj) => faults < MaxFaults
            /\ faults' = IF after.inj \/ w.inj THEN faults + 1 ELSE faults
            /\ fs' = w.fs
    /\ procs' = <<>>
    /\ last' = [Idle EXCEPT !.op = "trash", !.path = procs[1].path, !.res = "Ok",
                            !.newids = procs[1].created,
                            !.dest = procs[1].original_path]
    /\ UNCHANGED <<backend, onlyTrash>>

\* another process moves a file of its own into the trash
OtherAdds(name) ==
    /\ Cardinality(Children(fs, OsTrash_trash_dir)) < MaxPayloads
    /\ name \notin DirNames(fs, OsTrash_trash_dir)
    /\ fs' = Put(fs, Join(OsTrash_trash_dir, name), FileEntry(<<"o">>))
    /\ last' = [Idle EXCEPT !.op = "other"]
    /\ UNCHANGED <<backend, faults, onlyTrash, procs>>

\* another process removes an entry from the trash
OtherRemoves(name) ==
    /\ name \in DirNames(fs, OsTrash_trash_dir)
    /\ fs' = Del(fs, Under(fs, Join(OsTrash_trash_dir, name)))
    /\ last' = [Idle EXCEPT !.op = "other"]
    /\ UNCHANGED <<backend, faults, onlyTrash, procs>>

NextTrack ==
    \/ \E p \in TrackTargets, now \in OsTimes : TrackBefore(p, now)
    \/ TrackDelete
    \/ TrackAfter
    \/ \E name \in OtherNames : OtherAdds(name)
    \/ \E name \in DirNames(fs, OsTrash_trash_dir) : OtherRemoves(name)

SpecTrack == InitTrack /\ [][NextTrack]_vars

\* C39: every record a trash(path) call writes (whole, not cut short by a
\* failed write) names as TrashPath the entry that the delete of this very
\* call made in the trash, and as Path the canonical path of the file, also
\* when other processes add and remove entries of the trash during the call
\* and when the deleted file went to the trash of another volume.
C39_RecordPointsAtOwnEntry ==
    [][(last'.op = "trash" /\ last'.res = "Ok" /\ procs # <<>>) =>
          \A m \in DirNames(fs', OsTrash_info_dir) \ DirNames(fs, OsTrash_info_dir) :
              fs'[Join(OsTrash_info_dir, m)].d # <<>> =>
                 /\ last'.newids # {}
                 /\ \A n \in last'.newids :
                       PathFrom(MetaOf(fs', m).trash_path) = Join(OsTrash_trash_dir, n)
                 /\ PathFrom(MetaOf(fs', m).original_path) = last'.dest]_vars

====
